---- MODULE Spec2Model ----
(***************************************************************************)
(* Position monitor and liquidation engine of the perpetual-futures        *)
(* backend: the indexed position store (PositionMonitor), the liquidation  *)
(* index kept in Redis sorted sets (LiquidationAlertService), the on-chain *)
(* refresh cycle, the position mutator (PositionManager), the oracle price *)
(* cache with the PnL cycle, the start/stop life cycle of the three        *)
(* periodic tasks, and the instructions of the on-chain program.           *)
(*                                                                         *)
(* Prices are whole currency units.  A symbol "BASE-QUOTE" is the record   *)
(* [base, quote].  A position identifier is the address derived from       *)
(* (owner, position_index), written <<owner, index>>.                      *)
(***************************************************************************)
EXTENDS Integers, Sequences, FiniteSets, TLC

\* ------------------------------------------------------------------ bounds
\* total number of positions ever opened on chain
MaxOpens == 2
\* a handler's Redis commands are numbered 1, 2, ...; command number `fault`
\* fails (0: none does).  MaxFault is the largest command number that may fail.
MaxFault == 6
\* positions opened in the oracle specification and in the manager specification
MaxOracleOpens == 1
MaxManagerOpens == 1
\* positions opened in the specification of overlapping detections
MaxDetectOpens == 1
\* positions opened by the program; the largest total collateral a deposit
\* may reach and the largest locked collateral a modification may reach
MaxProgramOpens == 2
MaxCollateral == 1200
\* number of calls of start() and stop() together
MaxCalls == 3
\* work iterations counted per task after the flag was cleared (saturating)
MaxIter == 3
\* calls the concurrent callers of the position monitor make, all together
MaxStarted == 3

\* --------------------------------------------------------------- constants
Owners == {"o1", "o2"}
OwnerRank == [o \in Owners |-> IF o = "o1" THEN 0 ELSE 1]
Sides == {"Long", "Short"}
Statuses == {"Opening", "Open", "Modifying", "Closing", "Closed"}
Stables == {"USDT", "USDC", "DAI"}
BTC_USDT == [base |-> "BTC", quote |-> "USDT"]
BTC_USD == [base |-> "BTC", quote |-> "USD"]
\* symbols a caller passes to open_position
RawSymbols == {BTC_USDT, BTC_USD}
ETH_USD == [base |-> "ETH", quote |-> "USD"]
\* symbols the oracle is configured with (with_mainnet_defaults)
OracleSymbols == {BTC_USD, ETH_USD}
\* the symbol whose liquidation sets the detection specification exercises
DetectSymbols == {BTC_USD}
EntryPrices == {50000, 48000}
TickPrices == {46000, 46250, 48000, 50000, 52000, 53750}
\* leverage and maintenance margin ratio (basis points) of every open request
Leverage == 10
MmrBps == 250
\* the slippage tolerance of the example request, in basis points
ExampleSlippageBps == 50
\* alert_threshold_pct, in percent
AlertThresholdPct == 10
\* the largest score a range query asks for (u64::MAX in the source; every
\* score of the model lies far below it)
U64_MAX == 2147483647
\* open_position sends the size at 8 decimals (decimal_to_u64(size, 8)); the
\* refresh reads the account's size at 6 decimals (Decimal::new(size, 6)).
\* Prices are sent and read at 6 decimals and are kept in whole units.
SIZE_DECIMALS_SENT == 8
SIZE_DECIMALS_READ == 6
\* constants of the on-chain program
PRICE_PRECISION == 1000000
SUPPORTED_ASSET_DECIMALS == 1000000
U16_RANGE == 65536
MAX_LEVERAGE == 1000
MAX_SLIPPAGE_BPS == 10000
BPS == 10000
RECURSIVE Pow10(_)
Pow10(n) == IF n = 0 THEN 1 ELSE 10 * Pow10(n - 1)

PosIds == Owners \X (0 .. MaxOpens - 1)
NoAccount == [status |-> "NoAccount"]
Rank(id) == OwnerRank[id[1]] * (MaxOpens + 1) + id[2]

\* ------------------------------------------------------------------ state
VARIABLES
    chain,                \* on-chain position accounts: PosIds -> record or NoAccount
    position_count_total, \* on-chain UserAccount.position_count_total per owner
    positions,            \* PositionMonitor.positions
    positions_by_asset,   \* PositionMonitor.positions_by_asset
    positions_by_user,    \* PositionMonitor.positions_by_user
    zsets,                \* Redis sorted sets liquidations:{symbol}:{side}
    alertCount,           \* alerts published per (key, member, kind) in the current residency (0, 1, 2 = more)
    pending,              \* open_position calls whose transaction is confirmed, before add_position
    last,                 \* the last store/detection operation and what it observed
    latest_prices,        \* OracleClient.latest_prices: symbol -> price (absent: none cached)
    polled,               \* symbols the current price poll cycle has already handled
    running,              \* PositionMonitor.running
    tasks,                \* the live periodic tasks: per kind, how many are in each task state
    starts,               \* number of start() calls made
    stops,                \* number of stop() calls made
    lastStart,            \* result and observation of the last start() call
    user_accounts,        \* the program's UserAccount per owner (absent: not initialised)
    program_positions,    \* the program's Position accounts, in the program's fixed-point units
    subscribed_symbols,   \* websocket_handler: the connection's subscribed_symbols
    ws_commands,          \* per symbol, the last subscription command the connection processed
    ws_last,              \* the last broadcast message the send task handled and whether it was sent
    dropped,              \* the PositionMonitor value start() was called on has been dropped
    detectors,            \* in-flight check_liquidations_for_price_update calls, one per price task
    calls,                \* per caller, the steps its in-flight call has still to take and its locals
    guards,               \* per RwLock, the callers holding it and the callers queued for it
    observed,             \* what the last read operation returned, and the PnL cycle it overlapped
    price_ticks           \* the PriceUpdate messages sent on the price channel so far

storeVars == <<chain, position_count_total, positions, positions_by_asset,
               positions_by_user, zsets, alertCount, pending, last>>
oracleVars == <<latest_prices, polled>>
runVars == <<running, tasks, starts, stops, lastStart>>
programVars == <<user_accounts, program_positions>>
wsVars == <<subscribed_symbols, ws_commands, ws_last>>
callVars == <<calls, guards, observed, price_ticks>>
otherVars == <<wsVars, dropped, detectors, callVars>>
vars == <<chain, position_count_total, positions, positions_by_asset,
          positions_by_user, zsets, alertCount, pending, last,
          latest_prices, polled,
          running, tasks, starts, stops, lastStart,
          user_accounts, program_positions,
          subscribed_symbols, ws_commands, ws_last, dropped, detectors,
          calls, guards, observed, price_ticks>>

\* ------------------------------------------------------- partial functions
Put(f, k, v) == [x \in (DOMAIN f) \cup {k} |-> IF x = k THEN v ELSE f[x]]
Del(f, k) == [x \in (DOMAIN f) \ {k} |-> f[x]]
Retain(s, x) == SelectSeq(s, LAMBDA e : e # x)
Count(s, x) == Cardinality({i \in DOMAIN s : s[i] = x})
Range(s) == {s[i] : i \in DOMAIN s}

\* ------------------------------------------------------------ pure helpers
normalize_symbol(symbol) ==
    IF symbol.quote \in Stables
    THEN [base |-> symbol.base, quote |-> "USD"]
    ELSE symbol

Symbols == RawSymbols \cup {normalize_symbol(s) : s \in RawSymbols} \cup OracleSymbols
Keys == Symbols \X Sides

is_open(p) == p.status \in {"Open", "Opening"}

\* entry * (1 - 1/leverage + mmr) for Long, entry * (1 + 1/leverage - mmr) for
\* Short, in basis points (the model's leverages divide 10000)
calculate_liquidation_price(side, entry_price, leverage, mmr_bps) ==
    IF side = "Long"
    THEN (entry_price * (10000 - (10000 \div leverage) + mmr_bps)) \div 10000
    ELSE (entry_price * (10000 + (10000 \div leverage) - mmr_bps)) \div 10000

to_domain_position(acc, pubkey) ==
    [position_index |-> 0,
     position_account |-> pubkey,
     owner |-> acc.owner,
     symbol |-> normalize_symbol(acc.symbol),
     side |-> acc.side,
     size |-> acc.size \div Pow10(SIZE_DECIMALS_READ),
     entry_price |-> acc.entry_price,
     mark_price |-> acc.entry_price,
     leverage |-> acc.leverage,
     unrealized_pnl |-> acc.unrealized_pnl,
     liquidation_price |-> acc.liquidation_price,
     status |-> acc.status]

KeyOf(p) == <<p.symbol, p.side>>

\* --------------------------------------------------- Redis sorted-set store
\* A handler runs on a record st: the store's collections, the number n of
\* Redis commands issued so far, the number `fault` of the command that fails,
\* err (the handler has returned an error) and out (alerts published).
ZeroCount == [Liquidated |-> 0, Liquidating |-> 0]

Handler(fault) ==
    [positions |-> positions, by_asset |-> positions_by_asset,
     by_user |-> positions_by_user, z |-> zsets, cnt |-> alertCount,
     n |-> 0, fault |-> fault, err |-> FALSE, out |-> <<>>]

\* conn.zadd(&key, &member, &score)
zadd(st, key, member, score) ==
    IF st.n + 1 = st.fault
    THEN [st EXCEPT !.n = @ + 1, !.err = TRUE]
    ELSE [st EXCEPT !.n = @ + 1, !.z[key] = Put(@, member, score)]

\* conn.zrem(&key, &member)
zrem(st, key, member) ==
    IF st.n + 1 = st.fault
    THEN [st EXCEPT !.n = @ + 1, !.err = TRUE]
    ELSE [st EXCEPT !.n = @ + 1, !.z[key] = Del(@, member),
                    !.cnt = Del(@, <<key, member>>)]

\* ------------------------------------------------- indexed position store
PushIndex(index, k, id) ==
    Put(index, k, Append(IF k \in DOMAIN index THEN index[k] ELSE <<>>, id))

RetainIndex(index, k, id) ==
    IF k \in DOMAIN index THEN [index EXCEPT ![k] = Retain(@, id)] ELSE index

add_to_redis_sorted_set(st, position) ==
    zadd(st, KeyOf(position), position.position_account, position.liquidation_price)

remove_from_redis_sorted_set(st, position) ==
    zrem(st, KeyOf(position), position.position_account)

add_position(st, position) ==
    LET id == position.position_account
        s1 == [st EXCEPT !.positions = Put(@, id, position),
                         !.by_asset = PushIndex(@, position.symbol, id),
                         !.by_user = PushIndex(@, position.owner, id)]
    IN IF is_open(position) THEN add_to_redis_sorted_set(s1, position) ELSE s1

\* update_position writing the decoded record but keeping the stored marks
update_position_keep_marks(st, position) ==
    [st EXCEPT !.positions =
        Put(@, position.position_account,
            [position EXCEPT
                !.mark_price = st.positions[position.position_account].mark_price,
                !.unrealized_pnl = st.positions[position.position_account].unrealized_pnl])]
update_position(st, position) ==
    [st EXCEPT !.positions = Put(@, position.position_account, position)]

remove_position(st, id) ==
    IF id \notin DOMAIN st.positions
    THEN [st EXCEPT !.err = TRUE]
    ELSE LET position == st.positions[id]
             s1 == [st EXCEPT !.positions = Del(@, id),
                              !.by_asset = RetainIndex(@, position.symbol, id),
                              !.by_user = RetainIndex(@, position.owner, id)]
         IN remove_from_redis_sorted_set(s1, position)

\* ------------------------------------------------------- on-chain refresh
\* the scan loop over the accounts returned by get_program_accounts
RECURSIVE ScanLoop(_, _)
ScanLoop(accounts, st) ==
    IF accounts = <<>> \/ st.err
    THEN st
    ELSE LET id == Head(accounts)
             position == to_domain_position(chain[id], id)
         IN ScanLoop(Tail(accounts),
                     IF id \in DOMAIN st.positions
                     THEN update_position(st, position)
                     ELSE add_position(st, position))

\* the stale-position loop over get_all_positions(); a failed removal is ignored
RECURSIVE StaleLoop(_, _, _)
StaleLoop(all, seen, st) ==
    IF all = {}
    THEN st
    ELSE LET id == CHOOSE i \in all : \A j \in all : Rank(i) <= Rank(j)
             position == st.positions[id]
         IN StaleLoop(all \ {id}, seen,
                      IF id \notin seen /\ is_open(position)
                      THEN [remove_position(st, id) EXCEPT !.err = FALSE]
                      ELSE st)

refresh_positions_from_chain(accounts, st) ==
    LET s1 == ScanLoop(accounts, st)
    IN IF s1.err
       THEN s1
       ELSE StaleLoop(DOMAIN s1.positions, Range(accounts), s1)

Perms(S) ==
    {s \in [1 .. Cardinality(S) -> S] : \A i, j \in 1 .. Cardinality(S) : s[i] = s[j] => i = j}

OnChain == {id \in PosIds : chain[id] # NoAccount}
\* --------------------------------------------------- liquidation detection
\* a Redis command is issued: it is the one that fails when its number is `fault`
Cmd(st) == [st EXCEPT !.n = @ + 1, !.err = (st.n + 1 = st.fault)]

\* bounds of a range query are fractions <<numerator, denominator>>
InRange(score, lo, hi) == score * lo[2] >= lo[1] /\ score * hi[2] <= hi[1]

\* members in ascending score order, ties by member order (ZRANGEBYSCORE)
RECURSIVE Ascending(_, _)
Ascending(zmap, members) ==
    IF members = {}
    THEN <<>>
    ELSE LET m == CHOOSE i \in members : \A j \in members :
                      \/ zmap[i] < zmap[j]
                      \/ zmap[i] = zmap[j] /\ Rank(i) <= Rank(j)
         IN <<m>> \o Ascending(zmap, members \ {m})

get_positions_in_range(zmap, min_score, max_score) ==
    Ascending(zmap, {m \in DOMAIN zmap : InRange(zmap[m], min_score, max_score)})

emit_alert(st, position_account, symbol, side, liquidation_price, current_price, risk_type) ==
    [st EXCEPT !.out = Append(@, [position_account |-> position_account,
                                  symbol |-> symbol,
                                  side |-> side,
                                  liquidation_price |-> liquidation_price,
                                  current_price |-> current_price,
                                  risk_type |-> risk_type]),
               !.cnt = LET km == <<(<<symbol, side>>), position_account>>
                           c == IF km \in DOMAIN @ THEN @[km] ELSE ZeroCount
                       IN Put(@, km, [c EXCEPT ![risk_type] =
                                         IF c[risk_type] < 2 THEN c[risk_type] + 1 ELSE 2])]

alert_remove_from_redis_sorted_set(st, symbol, side, position_account) ==
    zrem(st, <<symbol, side>>, position_account)

\* one `for position_account_str in ...` loop of the detection
RECURSIVE AlertLoop(_, _, _, _, _, _)
AlertLoop(members, symbol, side, risk_type, current_price, st) ==
    IF members = <<>> \/ st.err
    THEN st
    ELSE LET m == Head(members)
             key == <<symbol, side>>
             s1 == Cmd(st)
             found == ~s1.err /\ m \in DOMAIN st.z[key]
         IN IF ~found
            THEN AlertLoop(Tail(members), symbol, side, risk_type, current_price,
                           [s1 EXCEPT !.err = FALSE])
            ELSE AlertLoop(Tail(members), symbol, side, risk_type, current_price,
                           alert_remove_from_redis_sorted_set(
                               emit_alert(s1, m, symbol, side, st.z[key][m],
                                          current_price, risk_type),
                               symbol, side, m))

\* the at-risk bounds with the sign of the threshold swapped
long_lower_bound_swapped(current_price) ==
    <<current_price * (100 + AlertThresholdPct), 100>>
short_upper_bound_swapped(current_price) ==
    <<current_price * (100 - AlertThresholdPct), 100>>

long_lower_bound(current_price) == <<current_price * (100 - AlertThresholdPct), 100>>
short_upper_bound(current_price) == <<current_price * (100 + AlertThresholdPct), 100>>

check_short(symbol, current_price, st) ==
    LET key == <<symbol, "Short">>
        q1 == Cmd(st)
        short_at_liquidation ==
            get_positions_in_range(st.z[key], <<0, 1>>, <<current_price, 1>>)
        q2 == Cmd(q1)
        short_at_risk ==
            get_positions_in_range(st.z[key], <<current_price, 1>>,
                                   short_upper_bound(current_price))
    IN IF q1.err THEN q1
       ELSE IF q2.err THEN q2
       ELSE LET l1 == AlertLoop(short_at_liquidation, symbol, "Short", "Liquidated",
                                current_price, q2)
            IN IF l1.err THEN l1
               ELSE AlertLoop(short_at_risk, symbol, "Short", "Liquidating",
                              current_price, l1)

check_liquidations_for_price_update(symbol, current_price, st) ==
    LET key == <<symbol, "Long">>
        q1 == Cmd(st)
        long_to_liquidate ==
            get_positions_in_range(st.z[key], <<current_price, 1>>, <<U64_MAX, 1>>)
        q2 == Cmd(q1)
        long_at_risk ==
            get_positions_in_range(st.z[key], long_lower_bound(current_price),
                                   <<current_price, 1>>)
    IN IF q1.err THEN q1
       ELSE IF q2.err THEN q2
       ELSE LET l1 == AlertLoop(long_to_liquidate, symbol, "Long", "Liquidated",
                                current_price, q2)
            IN IF l1.err THEN l1
               ELSE LET l2 == AlertLoop(long_at_risk, symbol, "Long", "Liquidating",
                                        current_price, l1)
                    IN IF l2.err THEN l2
                       ELSE check_short(symbol, current_price, l2)

\* ---------------------------------------------------------------- actions
NoBefore == [side \in Sides |-> <<>>]
NoOp ==
    [op |-> "none", symbol |-> BTC_USD, price |-> 0, ok |-> TRUE, alerts |-> <<>>,
     before |-> NoBefore, scanned |-> {}, openBefore |-> {}, closedBefore |-> {},
     id |-> <<>>, existed |-> FALSE, failed |-> FALSE,
     result |-> "none", submitted |-> FALSE, request |-> <<>>, oracle |-> <<>>,
     updates |-> <<>>, tick |-> <<>>]

TotalOpened == position_count_total["o1"] + position_count_total["o2"]

InitStore ==
    /\ chain = [id \in PosIds |-> NoAccount]
    /\ position_count_total = [o \in Owners |-> 0]
    /\ positions = <<>>
    /\ positions_by_asset = <<>>
    /\ positions_by_user = <<>>
    /\ zsets = [k \in Keys |-> <<>>]
    /\ alertCount = <<>>
    /\ pending = {}
    /\ last = NoOp

InitOracle ==
    /\ latest_prices = <<>>
    /\ polled = {}

Kinds == {"price", "refresh", "pnl"}
\* a live task: its place in `loop { check running; tick; work }`, the work
\* iterations it completed since the flag was last cleared, and whether its
\* work was in progress when the flag was cleared
TaskStates == [pc : {"check", "tick", "work"}, after : 0 .. MaxIter, inProgress : {0, 1}]
NewTask == [pc |-> "check", after |-> 0, inProgress |-> 0]
NoTasks == [ts \in TaskStates |-> 0]

InitRun ==
    /\ running = FALSE
    /\ tasks = [k \in Kinds |-> NoTasks]
    /\ starts = 0
    /\ stops = 0
    /\ lastStart = [result |-> "none", spawned |-> 0]

InitProgram ==
    /\ user_accounts = <<>>
    /\ program_positions = <<>>

\* symbols of the messages on the broadcast channels and of client commands
WsSymbols == OracleSymbols \cup {BTC_USDT}
NoMessage == [kind |-> "none", symbol |-> <<>>, delivered |-> FALSE]

InitWs ==
    /\ subscribed_symbols = {}
    /\ ws_commands = [s \in WsSymbols |-> "none"]
    /\ ws_last = NoMessage

\* the price tasks that can be alive at once, each running one detection at a time
DetectorIds == 1 .. 2
IdleDetector == [pc |-> "idle"]

InitOther ==
    /\ dropped = FALSE
    /\ detectors = [d \in DetectorIds |-> IdleDetector]

\* the concurrent callers of the position monitor and the RwLocks they take
Callers == {"price", "pnl", "refresh", "manager", "reader"}
GuardNames ==
    {"positions", "positions_by_asset", "positions_by_user", "oracle_client", "latest_prices"}
NoLocals == [seen |-> {}, stored |-> {}, done |-> {}, left |-> {}]
IdleCall == [todo |-> <<>>, loc |-> NoLocals, runs |-> 0]
FreeGuard == [holders |-> {}, waiting |-> <<>>]
NoRead == [op |-> "none", result |-> <<>>, done |-> {}, left |-> {}]

InitCalls ==
    /\ calls = [c \in Callers |-> IdleCall]
    /\ guards = [g \in GuardNames |-> FreeGuard]
    /\ observed = NoRead
    /\ price_ticks = {}

Init == InitStore /\ InitOracle /\ InitRun /\ InitProgram /\ InitWs /\ InitOther /\ InitCalls

Commit(st) ==
    /\ positions' = st.positions
    /\ positions_by_asset' = st.by_asset
    /\ positions_by_user' = st.by_user
    /\ zsets' = st.z
    /\ alertCount' = st.cnt

\* the checks open_position makes before it builds the instruction:
\* decimal_to_u64 of the size and of the entry price, calculate_initial_margin
open_position_inputs_ok(size, leverage, entry_price) ==
    size >= 0 /\ entry_price >= 0 /\ leverage # 0

\* a Position whose liquidation price is its entry price
LocalPositionAtEntry(id, owner, symbol, side, size, leverage, entry_price) ==
    [position_index |-> id[2],
     position_account |-> id, owner |-> owner, symbol |-> symbol, side |-> side,
     size |-> size, entry_price |-> entry_price, mark_price |-> entry_price,
     leverage |-> leverage, unrealized_pnl |-> 0,
     liquidation_price |-> entry_price,
     status |-> "Open"]

\* a program that confirms every open_position instruction
program_accepts_any(size, leverage) == TRUE

\* the argument checks of the program's open_position: a transaction whose
\* instruction fails them is not confirmed and send_transaction returns Err
program_accepts_open(size, leverage) ==
    size > 0 /\ leverage >= 1 /\ leverage <= MAX_LEVERAGE

\* the Position open_position builds once its transaction is confirmed
LocalPosition(id, owner, symbol, side, size, leverage, entry_price) ==
    [position_index |-> id[2],
     position_account |-> id, owner |-> owner, symbol |-> symbol, side |-> side,
     size |-> size, entry_price |-> entry_price, mark_price |-> entry_price,
     leverage |-> leverage, unrealized_pnl |-> 0,
     liquidation_price |-> calculate_liquidation_price(side, entry_price, leverage, MmrBps),
     status |-> "Open"]

\* the position account the instruction creates, as the refresh scan decodes it
ChainAccount(owner, symbol, side, size, leverage, entry_price) ==
    [owner |-> owner, symbol |-> symbol, side |-> side,
     size |-> size * Pow10(SIZE_DECIMALS_SENT), entry_price |-> entry_price,
     leverage |-> leverage, unrealized_pnl |-> 0,
     liquidation_price |-> calculate_liquidation_price(side, entry_price, leverage, MmrBps),
     status |-> "Open"]

get_cached_price(symbol) ==
    IF symbol \in DOMAIN latest_prices THEN <<latest_prices[symbol]>> ELSE <<>>

\* a call that creates a position account is made only while fewer than
\* `limit` accounts were created; a failing call creates none
Opens(limit, size, leverage, entry_price, tx_ok) ==
    (tx_ok /\ open_position_inputs_ok(size, leverage, entry_price))
        => TotalOpened < limit

\* an open_position that hands the position over before its transaction is
\* known to be confirmed
OpenSubmitEager(owner, symbol, side, size, leverage, entry_price, tx_ok) ==
    /\ Opens(MaxOpens, size, leverage, entry_price, tx_ok)
    /\ tx_ok => program_accepts_open(size * Pow10(SIZE_DECIMALS_SENT), leverage)
    /\ LET id == <<owner, position_count_total[owner]>>
           result == IF ~open_position_inputs_ok(size, leverage, entry_price)
                     THEN "InvalidInput"
                     ELSE IF tx_ok THEN "Sent" ELSE "TxError"
       IN /\ IF result # "InvalidInput"
             THEN /\ pending' = pending \cup
                         {LocalPosition(id, owner, symbol, side, size, leverage, entry_price)}
                  /\ position_count_total' =
                         [position_count_total EXCEPT ![owner] = @ + 1]
             ELSE UNCHANGED <<pending, position_count_total>>
          /\ IF result = "Sent"
             THEN chain' = [chain EXCEPT ![id] =
                         ChainAccount(owner, symbol, side, size, leverage, entry_price)]
             ELSE UNCHANGED chain
          /\ last' = [NoOp EXCEPT
                 !.op = "open", !.id = id, !.result = result,
                 !.submitted = (result # "InvalidInput"),
                 !.request = [owner |-> owner, symbol |-> symbol, side |-> side,
                              size |-> size, leverage |-> leverage,
                              entry_price |-> entry_price],
                 !.oracle = get_cached_price(symbol)]
    /\ UNCHANGED <<positions, positions_by_asset, positions_by_user, zsets, alertCount>>
    /\ UNCHANGED <<oracleVars, runVars, programVars, otherVars>>

\* open_position up to the return of send_transaction.  When the transaction
\* is confirmed the position account exists on chain and the position is not
\* yet registered with the monitor; on invalid input or a failed transaction
\* the call returns the error.
OpenSubmit(owner, symbol, side, size, leverage, entry_price, tx_ok) ==
    /\ Opens(MaxOpens, size, leverage, entry_price, tx_ok)
    /\ tx_ok => program_accepts_open(size * Pow10(SIZE_DECIMALS_SENT), leverage)
    /\ LET id == <<owner, position_count_total[owner]>>
           result == IF ~open_position_inputs_ok(size, leverage, entry_price)
                     THEN "InvalidInput"
                     ELSE IF tx_ok THEN "Sent" ELSE "TxError"
       IN /\ IF result = "Sent"
             THEN /\ chain' = [chain EXCEPT ![id] =
                         ChainAccount(owner, symbol, side, size, leverage, entry_price)]
                  /\ pending' = pending \cup
                         {LocalPosition(id, owner, symbol, side, size, leverage, entry_price)}
                  /\ position_count_total' =
                         [position_count_total EXCEPT ![owner] = @ + 1]
             ELSE UNCHANGED <<chain, pending, position_count_total>>
          /\ last' = [NoOp EXCEPT
                 !.op = "open", !.id = id, !.result = result,
                 !.submitted = (result # "InvalidInput"),
                 !.request = [owner |-> owner, symbol |-> symbol, side |-> side,
                              size |-> size, leverage |-> leverage,
                              entry_price |-> entry_price],
                 !.oracle = get_cached_price(symbol)]
    /\ UNCHANGED <<positions, positions_by_asset, positions_by_user, zsets, alertCount>>
    /\ UNCHANGED <<oracleVars, runVars, programVars, otherVars>>

\* open_position from `self.monitor.add_position(position.clone()).await?` on
OpenRegister(position, fault) ==
    /\ position \in pending
    /\ \E r \in {add_position(Handler(fault), position)} : Commit(r)
    /\ pending' = pending \ {position}
    /\ last' = [NoOp EXCEPT !.op = "add", !.id = position.position_account,
                            !.existed = (position.position_account \in DOMAIN positions),
                            !.failed = (fault = 1 /\ is_open(position)),
                            !.request = position]
    /\ UNCHANGED <<chain, position_count_total>>
    /\ UNCHANGED <<oracleVars, runVars, programVars, otherVars>>

\* the on-chain close_position instruction: the account stays, status Closed
ChainClose(id) ==
    /\ chain[id] # NoAccount
    /\ chain[id].status = "Open"
    /\ chain' = [chain EXCEPT ![id].status = "Closed"]
    /\ last' = NoOp
    /\ UNCHANGED <<position_count_total, positions, positions_by_asset,
                   positions_by_user, zsets, alertCount, pending>>
    /\ UNCHANGED <<oracleVars, runVars, programVars, otherVars>>

\* the account is no longer returned by get_program_accounts
ChainVanish(id) ==
    /\ chain[id] # NoAccount
    /\ chain' = [chain EXCEPT ![id] = NoAccount]
    /\ last' = NoOp
    /\ UNCHANGED <<position_count_total, positions, positions_by_asset,
                   positions_by_user, zsets, alertCount, pending>>
    /\ UNCHANGED <<oracleVars, runVars, programVars, otherVars>>

\* one cycle of the refresh task; accounts is the scan result in RPC order
Refresh(accounts, fault) ==
    /\ \E r \in {refresh_positions_from_chain(accounts, Handler(fault))} :
          /\ Commit(r)
          /\ last' = [NoOp EXCEPT
                 !.op = "refresh", !.ok = ~r.err, !.scanned = Range(accounts),
                 !.failed = (fault # 0 /\ fault <= r.n),
                 !.openBefore = {i \in DOMAIN positions : is_open(positions[i])},
                 !.closedBefore = {i \in DOMAIN positions : positions[i].status = "Closed"}]
    /\ UNCHANGED <<chain, position_count_total, pending>>
    /\ UNCHANGED <<oracleVars, runVars, programVars, otherVars>>

\* one price tick of the price poll task for a symbol of the oracle
Detect(symbol, current_price, fault) ==
    /\ \E r \in {check_liquidations_for_price_update(symbol, current_price, Handler(fault))} :
          /\ Commit(r)
          /\ last' = IF fault # 0 /\ fault <= r.n
                      THEN [NoOp EXCEPT !.op = "detect", !.ok = ~r.err,
                                        !.failed = TRUE]
                      ELSE [NoOp EXCEPT
                               !.op = "detect", !.symbol = symbol,
                               !.price = current_price, !.alerts = r.out,
                               !.before = [side \in Sides |-> zsets[<<symbol, side>>]]]
    /\ UNCHANGED <<chain, position_count_total, pending>>
    /\ UNCHANGED <<oracleVars, runVars, programVars, otherVars>>

\* open_position run without interleaving: the transaction, then add_position
OpenPosition(owner, symbol, side, size, entry_price, fault) ==
    /\ TotalOpened < MaxOpens
    /\ LET id == <<owner, position_count_total[owner]>>
           position == LocalPosition(id, owner, symbol, side, size, Leverage, entry_price)
       IN /\ chain' = [chain EXCEPT ![id] =
                  ChainAccount(owner, symbol, side, size, Leverage, entry_price)]
          /\ \E r \in {add_position(Handler(fault), position)} : Commit(r)
    /\ position_count_total' = [position_count_total EXCEPT ![owner] = @ + 1]
    /\ last' = NoOp
    /\ UNCHANGED pending
    /\ UNCHANGED <<oracleVars, runVars, programVars, otherVars>>

\* ------------------------------------------- modify_position, close_position
\* an optional argument is <<>> (None) or <<v>> (Some(v))
\* modify_position without the is_open check
modify_position_unchecked(id, new_size, tx_ok) ==
    IF id \notin DOMAIN positions THEN "NotFound"
    ELSE IF new_size # <<>> /\ new_size[1] < 0 THEN "InvalidInput"
    ELSE IF tx_ok THEN "Sent" ELSE "TxError"
\* PositionManager::modify_position up to the return of send_transaction: the
\* error it returns, or "Sent" when the transaction is confirmed
modify_position(id, new_size, tx_ok) ==
    IF id \notin DOMAIN positions THEN "NotFound"
    ELSE IF ~is_open(positions[id]) THEN "NotOpen"
    ELSE IF new_size # <<>> /\ new_size[1] < 0 THEN "InvalidInput"
    ELSE IF tx_ok THEN "Sent" ELSE "TxError"

\* PositionManager::close_position up to the return of send_transaction
close_position(id, final_price, tx_ok) ==
    IF id \notin DOMAIN positions THEN "NotFound"
    ELSE IF ~is_open(positions[id]) THEN "NotOpen"
    ELSE IF final_price < 0 THEN "InvalidInput"
    ELSE IF tx_ok THEN "Sent" ELSE "TxError"

\* the program confirms a modify or close instruction only for an account that
\* exists with status Open
ChainAccepts(id) == chain[id] # NoAccount /\ chain[id].status = "Open"
\* and a modify instruction with a new size only when that size is positive
ChainAcceptsSize(new_size) ==
    new_size # <<>> => new_size[1] * Pow10(SIZE_DECIMALS_SENT) > 0

\* a modify_position call; the store is not written, the next refresh reads
\* the new size from the chain
ModifyPosition(id, new_size, tx_ok) ==
    /\ tx_ok => (ChainAccepts(id) /\ ChainAcceptsSize(new_size))
    /\ LET result == modify_position(id, new_size, tx_ok)
       IN /\ chain' = IF result = "Sent" /\ new_size # <<>>
                      THEN [chain EXCEPT ![id].size = new_size[1] * Pow10(SIZE_DECIMALS_SENT)]
                      ELSE chain
          /\ last' = [NoOp EXCEPT !.op = "modify", !.id = id, !.result = result,
                                  !.submitted = (result \in {"Sent", "TxError"})]
    /\ UNCHANGED <<position_count_total, positions, positions_by_asset,
                   positions_by_user, zsets, alertCount, pending>>
    /\ UNCHANGED <<oracleVars, runVars, programVars, otherVars>>

\* a close_position call; the store is not written, the account stays on
\* chain with status Closed
ClosePosition(id, final_price, tx_ok) ==
    /\ tx_ok => ChainAccepts(id)
    /\ LET result == close_position(id, final_price, tx_ok)
       IN /\ chain' = IF result = "Sent"
                      THEN [chain EXCEPT ![id].status = "Closed"]
                      ELSE chain
          /\ last' = [NoOp EXCEPT !.op = "close", !.id = id, !.result = result,
                                  !.price = final_price,
                                  !.submitted = (result \in {"Sent", "TxError"})]
    /\ UNCHANGED <<position_count_total, positions, positions_by_asset,
                   positions_by_user, zsets, alertCount, pending>>
    /\ UNCHANGED <<oracleVars, runVars, programVars, otherVars>>

\* PositionMonitor::get_user_positions
get_user_positions(owner) ==
    LET position_accounts == IF owner \in DOMAIN positions_by_user
                             THEN positions_by_user[owner] ELSE <<>>
        present == SelectSeq(position_accounts, LAMBDA a : a \in DOMAIN positions)
    IN [i \in DOMAIN present |-> positions[present[i]]]

\* ------------------------------------------------ oracle poll and PnL cycle
\* MarginCalculator::calculate_unrealized_pnl with both operands of the other side
calculate_unrealized_pnl_long_only(side, size, mark_price, entry_price) ==
    size * (mark_price - entry_price)
\* MarginCalculator::calculate_unrealized_pnl (the model's sizes and prices lie
\* far inside the range of Decimal, so checked_sub and checked_mul succeed)
calculate_unrealized_pnl(side, size, mark_price, entry_price) ==
    IF side = "Long"
    THEN size * (mark_price - entry_price)
    ELSE size * (entry_price - mark_price)

\* the loop of update_all_pnl over positions.values_mut(), here in Rank order
\* (the map's iteration order is arbitrary; no step depends on another)
RECURSIVE PnlLoop(_, _, _)
PnlLoop(ids, pos, out) ==
    IF ids = {}
    THEN [positions |-> pos, updates |-> out]
    ELSE LET id == CHOOSE i \in ids : \A j \in ids : Rank(i) <= Rank(j)
             position == pos[id]
             cached == get_cached_price(position.symbol)
         IN IF ~is_open(position) \/ cached = <<>>
            THEN PnlLoop(ids \ {id}, pos, out)
            ELSE LET mark_price == cached[1]
                     pnl == calculate_unrealized_pnl(position.side, position.size,
                                                     mark_price, position.entry_price)
                     updated == [position EXCEPT !.mark_price = mark_price,
                                                 !.unrealized_pnl = pnl]
                 IN PnlLoop(ids \ {id}, Put(pos, id, updated),
                            Append(out, [position_account |-> id,
                                         symbol |-> updated.symbol,
                                         side |-> updated.side,
                                         size |-> updated.size,
                                         entry_price |-> updated.entry_price,
                                         mark_price |-> updated.mark_price,
                                         unrealized_pnl |-> updated.unrealized_pnl]))

update_all_pnl(pos) == PnlLoop(DOMAIN pos, pos, <<>>)

\* one cycle of the PnL update task, under the write guard of the position map
UpdateAllPnl ==
    /\ \E r \in {update_all_pnl(positions)} :
          /\ positions' = r.positions
          /\ last' = [NoOp EXCEPT !.op = "pnl", !.updates = r.updates]
    /\ UNCHANGED <<chain, position_count_total, positions_by_asset,
                   positions_by_user, zsets, alertCount, pending>>
    /\ UNCHANGED <<oracleVars, runVars, programVars, otherVars>>

\* what the HTTP call of fetch_price can come back with: a failed request, a
\* body that is not JSON, a body without parsed[0].price, a price string that
\* is not an integer, or a price with its exponent
\* (price, expo) pairs: 48000 and 50300 for BTC-USD, 3400 for ETH-USD
PriceQuotes(symbol) ==
    IF symbol = BTC_USD THEN {<<4800000, -2>>, <<503, 2>>} ELSE {<<3400, 0>>}
PriceResponses(symbol) ==
    {[kind |-> k, price |-> 0, expo |-> 0] :
        k \in {"SendFailed", "NotJson", "NoPriceField", "BadPrice"}}
    \cup {[kind |-> "Ok", price |-> q[1], expo |-> q[2]] : q \in PriceQuotes(symbol)}

\* fetch_price that stores the unparsed price before it validates the response
fetch_price_cache_first(cache, symbol, response) ==
    IF response.kind \in {"SendFailed", "NotJson"}
    THEN [ok |-> FALSE, price |-> 0, cache |-> cache]
    ELSE IF response.kind # "Ok"
    THEN [ok |-> FALSE, price |-> 0, cache |-> Put(cache, symbol, response.price)]
    ELSE LET price_value == IF response.expo >= 0
                            THEN response.price * Pow10(response.expo)
                            ELSE response.price \div Pow10(-response.expo)
         IN [ok |-> TRUE, price |-> price_value, cache |-> Put(cache, symbol, price_value)]
\* OracleClient::fetch_price: every error returns before the cache is written.
\* Decimal::new(price, -expo) is exact; the quotes are chosen as whole prices.
fetch_price(cache, symbol, response) ==
    IF response.kind # "Ok"
    THEN [ok |-> FALSE, price |-> 0, cache |-> cache]
    ELSE LET price_value == IF response.expo >= 0
                            THEN response.price * Pow10(response.expo)
                            ELSE response.price \div Pow10(-response.expo)
         IN [ok |-> TRUE, price |-> price_value, cache |-> Put(cache, symbol, price_value)]

\* the poll cycle moves on to the next symbol; after the last one a new cycle starts
NextPolled(symbol) ==
    IF polled \cup {symbol} = OracleSymbols THEN {} ELSE polled \cup {symbol}

\* one iteration of `for symbol in symbols` in the price poll task
PollSymbol(symbol, response, fault) ==
    /\ symbol \in OracleSymbols \ polled
    /\ \E f \in {fetch_price(latest_prices, symbol, response)} :
          /\ latest_prices' = f.cache
          /\ IF f.ok
             THEN \E r \in {check_liquidations_for_price_update(symbol, f.price,
                                                                Handler(fault))} :
                     /\ Commit(r)
                     /\ last' = [NoOp EXCEPT !.op = "poll", !.symbol = symbol,
                                             !.result = "Ok", !.price = f.price,
                                             !.tick = <<[symbol |-> symbol, price |-> f.price]>>,
                                             !.ok = ~r.err, !.alerts = r.out]
             ELSE /\ UNCHANGED <<positions, positions_by_asset, positions_by_user,
                                 zsets, alertCount>>
                  /\ last' = [NoOp EXCEPT !.op = "poll", !.symbol = symbol,
                                          !.result = "Err"]
    /\ polled' = NextPolled(symbol)
    /\ UNCHANGED <<chain, position_count_total, pending>>
    /\ UNCHANGED <<runVars, programVars, otherVars>>

\* the number of Redis commands a handler issues when none fails
DetectCommands(symbol, price) ==
    check_liquidations_for_price_update(symbol, price, Handler(0)).n
Min(a, b) == IF a < b THEN a ELSE b

\* The store specification: opening, closing and vanishing of on-chain
\* accounts, registration with the monitor and the refresh cycle.  Every Redis
\* command succeeds here; SpecDetect lets them fail.
StoreOwners == {"o1"}
StoreEntryPrices == {50000}
StoreSizes == {1}

Next ==
    \/ \E o \in StoreOwners, s \in RawSymbols, sd \in Sides, e \in StoreEntryPrices :
           \E q \in StoreSizes : OpenSubmit(o, s, sd, q, Leverage, e, TRUE)
    \/ \E p \in pending : OpenRegister(p, 0)
    \/ \E id \in PosIds : ChainClose(id)
    \/ \E id \in PosIds : ChainVanish(id)
    \/ \E accounts \in Perms(OnChain) : Refresh(accounts, 0)

Spec == Init /\ [][Next]_vars

\* The detection specification: positions of the oracle's symbol are opened
\* and price ticks run the detection.
DetectOwners == {"o1"}

NextDetect ==
    \/ \E o \in DetectOwners, s \in DetectSymbols, sd \in Sides, e \in EntryPrices :
           \E f \in 0 .. 1 : OpenPosition(o, s, sd, 1, e, f)
    \/ \E s \in DetectSymbols, p \in TickPrices :
           \E f \in 0 .. Min(MaxFault, DetectCommands(s, p)) : Detect(s, p, f)

SpecDetect == Init /\ [][NextDetect]_vars

\* The oracle specification: positions are opened and closed through the
\* manager, the refresh cycle mirrors the chain, the price poll fills the
\* price cache and the PnL cycle marks the stored positions.
\* the identifiers a caller names: those derived so far and the next one
KnownIds(owners) ==
    {id \in PosIds : id[1] \in owners /\ id[2] <= position_count_total[id[1]]}
OracleOwners == {"o1"}
OracleSizes == {1}
OracleEntryPrices == {50000}

NextOracle ==
    \/ \E o \in OracleOwners, s \in DetectSymbols, sd \in Sides, q \in OracleSizes,
          e \in OracleEntryPrices :
           TotalOpened < MaxOracleOpens /\ OpenPosition(o, s, sd, q, e, 0)
    \/ \E id \in KnownIds(OracleOwners), e \in OracleEntryPrices : ClosePosition(id, e, TRUE)
    \/ \E accounts \in Perms(OnChain) : Refresh(accounts, 0)
    \/ \E s \in OracleSymbols : \E r \in PriceResponses(s) : PollSymbol(s, r, 0)
    \/ UpdateAllPnl

SpecOracle == Init /\ [][NextOracle]_vars

\* open_position calls made while the price poll task fills the cache
NextSlippage ==
    \/ \E o \in OracleOwners, s \in DetectSymbols, sd \in Sides, q \in OracleSizes,
          e \in OracleEntryPrices :
           Opens(MaxManagerOpens, q, Leverage, e, TRUE)
               /\ OpenSubmit(o, s, sd, q, Leverage, e, TRUE)
    \/ \E p \in pending : OpenRegister(p, 0)
    \/ \E s \in OracleSymbols : \E r \in PriceResponses(s) : PollSymbol(s, r, 0)

SpecSlippage == Init /\ [][NextSlippage]_vars

\* The manager specification: open_position with its failures, modify_position
\* and close_position, interleaved with the refresh cycle.
ManagerOwners == {"o1"}
ManagerSymbols == {BTC_USDT}
ManagerLeverages == {0, Leverage}
ManagerNewSizes == {<<>>, <<2>>}

NextManager ==
    \/ \E o \in ManagerOwners, s \in ManagerSymbols, sd \in Sides, l \in ManagerLeverages,
          e \in StoreEntryPrices, tx_ok \in BOOLEAN :
           Opens(MaxManagerOpens, 1, l, e, tx_ok) /\ OpenSubmit(o, s, sd, 1, l, e, tx_ok)
    \/ \E p \in pending, f \in 0 .. 1 : OpenRegister(p, f)
    \/ \E accounts \in Perms(OnChain) : Refresh(accounts, 0)
    \/ \E id \in KnownIds(ManagerOwners), new_size \in ManagerNewSizes, tx_ok \in BOOLEAN :
           ModifyPosition(id, new_size, tx_ok)
    \/ \E id \in KnownIds(ManagerOwners), e \in StoreEntryPrices, tx_ok \in BOOLEAN :
           ClosePosition(id, e, tx_ok)

SpecManager == Init /\ [][NextManager]_vars
\* ------------------------------------------------------ monitor life cycle
Live(kind) ==
    LET RECURSIVE Sum(_)
        Sum(S) == IF S = {} THEN 0
                  ELSE LET t == CHOOSE x \in S : TRUE
                       IN tasks[kind][t] + Sum(S \ {t})
    IN Sum(TaskStates)

\* the tasks of bag b, each mapped by f
MapTasks(b, f(_)) ==
    LET RECURSIVE Sum(_, _)
        Sum(S, t) == IF S = {} THEN 0
                     ELSE LET x == CHOOSE y \in S : TRUE
                          IN (IF f(x) = t THEN b[x] ELSE 0) + Sum(S \ {x}, t)
    IN [t \in TaskStates |-> Sum(TaskStates, t)]

Running(ts) == [ts EXCEPT !.after = 0, !.inProgress = 0]
Stopped(ts) == [ts EXCEPT !.after = 0, !.inProgress = IF ts.pc = "work" THEN 1 ELSE 0]
Spawn(b) == [b EXCEPT ![NewTask] = @ + 1]

\* start() with the check of the running flag left out
StartUnchecked ==
    /\ starts + stops < MaxCalls
    /\ starts' = starts + 1
    /\ running' = TRUE
    /\ tasks' = [k \in Kinds |-> Spawn(MapTasks(tasks[k], Running))]
    /\ lastStart' = [result |-> "Ok", spawned |-> 3]
    /\ UNCHANGED stops
    /\ UNCHANGED <<storeVars, oracleVars, programVars, otherVars>>

\* PositionMonitor::start
Start ==
    /\ starts + stops < MaxCalls
    /\ starts' = starts + 1
    /\ IF running
       THEN /\ lastStart' = [result |-> "AlreadyRunning", spawned |-> 0]
            /\ UNCHANGED <<running, tasks>>
       ELSE /\ running' = TRUE
            /\ tasks' = [k \in Kinds |-> Spawn(MapTasks(tasks[k], Running))]
            /\ lastStart' = [result |-> "Ok", spawned |-> 3]
    /\ UNCHANGED stops
    /\ UNCHANGED <<storeVars, oracleVars, programVars, otherVars>>

\* PositionMonitor::stop
Stop ==
    /\ starts + stops < MaxCalls
    /\ stops' = stops + 1
    /\ running' = FALSE
    /\ tasks' = IF running
                THEN [k \in Kinds |-> MapTasks(tasks[k], Stopped)]
                ELSE tasks
    /\ UNCHANGED <<starts, lastStart>>
    /\ UNCHANGED <<storeVars, oracleVars, programVars, otherVars>>

Move(kind, from, to) ==
    tasks' = [tasks EXCEPT ![kind] =
                 IF from = to THEN @
                 ELSE [@ EXCEPT ![from] = @ - 1, ![to] = @ + 1]]
Exit(kind, from) ==
    tasks' = [tasks EXCEPT ![kind][from] = @ - 1]
Completed(ts) ==
    [ts EXCEPT !.pc = "check",
               !.after = IF running THEN 0 ELSE IF @ < MaxIter THEN @ + 1 ELSE @]

\* a task loop that never looks at the running flag
TaskStepUnchecked(kind, ts) ==
    /\ tasks[kind][ts] > 0
    /\ CASE ts.pc = "check" -> Move(kind, ts, [ts EXCEPT !.pc = "tick"])
         [] ts.pc = "tick" -> Move(kind, ts, [ts EXCEPT !.pc = "work"])
         [] ts.pc = "work" -> Move(kind, ts, Completed(ts))
    /\ UNCHANGED <<running, starts, stops, lastStart>>
    /\ UNCHANGED <<storeVars, oracleVars, programVars, otherVars>>

\* one step of a task spawned by spawn_price_monitor, spawn_position_refresher
\* or spawn_pnl_updater: the flag check, the tick, or the work of the iteration
TaskStep(kind, ts) ==
    /\ tasks[kind][ts] > 0
    /\ CASE ts.pc = "check" ->
                IF running
                THEN Move(kind, ts, [ts EXCEPT !.pc = "tick"])
                ELSE Exit(kind, ts)
         [] ts.pc = "tick" -> Move(kind, ts, [ts EXCEPT !.pc = "work"])
         [] ts.pc = "work" -> Move(kind, ts, Completed(ts))
    /\ UNCHANGED <<running, starts, stops, lastStart>>
    /\ UNCHANGED <<storeVars, oracleVars, programVars, otherVars>>

NextRun ==
    \/ Start
    \/ Stop
    \/ \E k \in Kinds, ts \in TaskStates : TaskStep(k, ts)

SpecRun == Init /\ [][NextRun]_vars

\* every live task is scheduled again (tokio worker threads)
FairSpecRun ==
    SpecRun /\ \A k \in Kinds, ts \in TaskStates : WF_vars(TaskStep(k, ts))

\* ------------------------------------------- the position management program
\* Amounts of the program are u64 fixed-point numbers with 6 decimals.  Every
\* instruction either returns Ok or returns an error, and an error leaves
\* every account as it was before the instruction.

\* (x as u16)
as_u16(x) == x % U16_RANGE

\* LEVERAGE_TIERS: max_position_size of the first tier is u64::MAX, of the
\* others a number of whole units times PRICE_PRECISION (max_position_units)
LEVERAGE_TIERS ==
    <<[max_leverage |-> 20, maintenance_margin_rate |-> 250, unlimited |-> TRUE,
       max_position_units |-> 0],
      [max_leverage |-> 50, maintenance_margin_rate |-> 100, unlimited |-> FALSE,
       max_position_units |-> 100000],
      [max_leverage |-> 100, maintenance_margin_rate |-> 50, unlimited |-> FALSE,
       max_position_units |-> 50000],
      [max_leverage |-> 500, maintenance_margin_rate |-> 25, unlimited |-> FALSE,
       max_position_units |-> 20000],
      [max_leverage |-> 1000, maintenance_margin_rate |-> 10, unlimited |-> FALSE,
       max_position_units |-> 5000]>>

\* position_size <= tier.max_position_size
WithinTierSize(tier, position_size) ==
    tier.unlimited
        \/ (position_size + PRICE_PRECISION - 1) \div PRICE_PRECISION
               <= tier.max_position_units

\* the first tier that admits (leverage, position_size); <<>> is LeverageExceeded
RECURSIVE TierFrom(_, _, _)
TierFrom(n, leverage, position_size) ==
    IF n > Len(LEVERAGE_TIERS) THEN <<>>
    ELSE IF leverage <= LEVERAGE_TIERS[n].max_leverage
            /\ WithinTierSize(LEVERAGE_TIERS[n], position_size)
         THEN <<LEVERAGE_TIERS[n]>>
         ELSE TierFrom(n + 1, leverage, position_size)

get_leverage_tier(leverage, position_size) == TierFrom(1, leverage, position_size)

calculate_position_value_for_tiers(size, entry_price) ==
    (size * entry_price) \div SUPPORTED_ASSET_DECIMALS

\* <<margin>>, or <<>> for ArithmeticOverflow (checked_div by leverage 0)
calculate_initial_margin(size, entry_price, leverage) ==
    IF leverage = 0 THEN <<>>
    ELSE <<((size * entry_price) \div SUPPORTED_ASSET_DECIMALS) \div leverage>>

\* <<price>>, or <<>> for ArithmeticOverflow (leverage 0, or checked_sub below 0)
program_calculate_liquidation_price(entry_price, leverage, side, maintenance_margin_rate) ==
    IF leverage = 0 THEN <<>>
    ELSE LET mm_factor == (maintenance_margin_rate * PRICE_PRECISION) \div BPS
             leverage_factor == PRICE_PRECISION \div leverage
             adjustment == IF side = "Long"
                           THEN PRICE_PRECISION - leverage_factor + mm_factor
                           ELSE PRICE_PRECISION + leverage_factor - mm_factor
         IN IF adjustment < 0 THEN <<>>
            ELSE <<(entry_price * adjustment) \div PRICE_PRECISION>>

\* truncated toward zero, as i64 checked_div does
program_calculate_unrealized_pnl(size, entry_price, mark_price, side) ==
    LET gain == IF side = "Long" THEN mark_price >= entry_price
                                 ELSE entry_price >= mark_price
        diff == IF mark_price >= entry_price THEN mark_price - entry_price
                                             ELSE entry_price - mark_price
        magnitude == (size * diff) \div SUPPORTED_ASSET_DECIMALS
    IN IF gain THEN magnitude ELSE 0 - magnitude

\* validate_slippage: both comparisons use the basis points cast to u16
validate_slippage(expected_price, actual_price, max_slippage_bps, side) ==
    LET price_diff == IF actual_price > expected_price
                      THEN actual_price - expected_price
                      ELSE expected_price - actual_price
    IN IF expected_price = 0 THEN "ArithmeticOverflow"
       ELSE LET slippage_bps == as_u16((price_diff * BPS) \div expected_price)
                unfavorable ==
                    IF side = "Long" THEN actual_price > expected_price
                                     ELSE actual_price < expected_price
                unfavorable_slippage ==
                    as_u16((price_diff * BPS) \div expected_price)
            IN IF slippage_bps > max_slippage_bps THEN "SlippageExceeded"
               ELSE IF unfavorable /\ unfavorable_slippage > max_slippage_bps
                    THEN "SlippageExceeded"
                    ELSE "Ok"

NoUser == [status |-> "NoUser"]
UserOf(owner) == IF owner \in DOMAIN user_accounts THEN user_accounts[owner] ELSE NoUser
NoPosition == [status |-> "NoPosition"]
ProgramPosition(id) ==
    IF id \in DOMAIN program_positions THEN program_positions[id] ELSE NoPosition

\* a - b on u64 without a check: a build with overflow checks panics when
\* b > a, a build without them wraps around
unchecked_sub(a, b, overflow_checks) ==
    IF a >= b THEN [panic |-> FALSE, value |-> a - b]
    ELSE IF overflow_checks THEN [panic |-> TRUE, value |-> 0]
         ELSE [panic |-> FALSE, value |-> U64_MAX - (b - a) + 1]

\* initialize_user: the account is created (init fails when it exists)
initialize_user(owner) ==
    IF UserOf(owner) # NoUser
    THEN [result |-> "AccountInUse", user |-> UserOf(owner)]
    ELSE [result |-> "Ok",
          user |-> [total_collateral |-> 0, locked_collateral |-> 0, total_pnl |-> 0,
                    position_count |-> 0, position_count_total |-> 0]]

add_collateral(owner, amount) ==
    LET u == UserOf(owner)
    IN IF u = NoUser THEN [result |-> "AccountNotInitialized", user |-> u]
       ELSE [result |-> "Ok",
             user |-> [u EXCEPT !.total_collateral = @ + amount]]

\* open_position; entry_price is the oracle price converted by
\* convert_pyth_price_to_u64 (0: the price is missing, stale or not positive)
program_open_position(owner, side, size, leverage, expected_price, maximum_slippage_bps, entry_price) ==
    LET u == UserOf(owner)
        fail(e) == [result |-> e, user |-> u, position |-> NoPosition]
    IN IF u = NoUser THEN fail("AccountNotInitialized")
       ELSE IF size = 0 THEN fail("InvalidPositionSize")
       ELSE IF ~(leverage >= 1 /\ leverage <= MAX_LEVERAGE) THEN fail("InvalidLeverage")
       ELSE IF maximum_slippage_bps > MAX_SLIPPAGE_BPS THEN fail("InvalidSlippage")
       ELSE IF entry_price = 0 THEN fail("InvalidPrice")
       ELSE IF validate_slippage(expected_price, entry_price,
                                 maximum_slippage_bps, side) # "Ok"
            THEN fail(validate_slippage(expected_price, entry_price,
                                        maximum_slippage_bps, side))
       ELSE LET position_value == calculate_position_value_for_tiers(size, entry_price)
                tier == get_leverage_tier(leverage, position_value)
                required_margin == calculate_initial_margin(size, entry_price, leverage)
            IN IF tier = <<>> THEN fail("LeverageExceeded")
               ELSE LET liquidation_price ==
                            program_calculate_liquidation_price(
                                entry_price, leverage, side,
                                tier[1].maintenance_margin_rate)
                    IN IF liquidation_price = <<>> THEN fail("ArithmeticOverflow")
                       ELSE IF u.total_collateral < u.locked_collateral
                            THEN fail("InsufficientCollateral")
                       ELSE IF u.total_collateral - u.locked_collateral
                                   < required_margin[1]
                            THEN fail("InsufficientCollateral")
                       ELSE [result |-> "Ok",
                             user |-> [u EXCEPT
                                 !.position_count_total = @ + 1,
                                 !.position_count = @ + 1,
                                 !.locked_collateral = @ + required_margin[1]],
                             position |->
                                 [owner |-> owner, side |-> side, size |-> size,
                                  entry_price |-> entry_price,
                                  margin |-> required_margin[1],
                                  leverage |-> leverage, unrealized_pnl |-> 0,
                                  realized_pnl |-> 0, funding_accrued |-> 0,
                                  liquidation_price |-> liquidation_price[1],
                                  status |-> "Open"]]

\* modify_position, the `if let Some(size) = new_size` block applied to
\* st = [result, user, position]
modify_size(st, size, overflow_checks) ==
    LET p == st.position
        u == st.user
        fail(e) == [st EXCEPT !.result = e]
        new_required_margin == calculate_initial_margin(size, p.entry_price, p.leverage)
    IN IF size = 0 THEN fail("InvalidPositionSize")
       ELSE IF get_leverage_tier(p.leverage,
                   calculate_position_value_for_tiers(size, p.entry_price)) = <<>>
            THEN fail("LeverageExceeded")
       ELSE IF new_required_margin = <<>> THEN fail("ArithmeticOverflow")
       ELSE IF new_required_margin[1] > p.margin
            THEN LET additional_margin == new_required_margin[1] - p.margin
                     available == unchecked_sub(u.total_collateral,
                                                u.locked_collateral, overflow_checks)
                 IN IF available.panic THEN fail("Panic")
                    ELSE IF available.value < additional_margin
                         THEN fail("InsufficientCollateral")
                    ELSE [st EXCEPT
                             !.user.locked_collateral = @ + additional_margin,
                             !.position.size = size,
                             !.position.margin = new_required_margin[1]]
            ELSE LET freed_margin == p.margin - new_required_margin[1]
                     locked == unchecked_sub(u.locked_collateral, freed_margin,
                                             overflow_checks)
                 IN IF locked.panic THEN fail("Panic")
                    ELSE [st EXCEPT
                             !.user.locked_collateral = locked.value,
                             !.position.size = size,
                             !.position.margin = new_required_margin[1]]

\* the margin block changing the position's margin only, never the locked collateral
modify_margin_position_only(st, delta, overflow_checks) ==
    [st EXCEPT !.position.margin = @ + delta]
\* modify_position, the `if let Some(delta) = margin_delta` block
modify_margin(st, delta, overflow_checks) ==
    LET p == st.position
        u == st.user
        fail(e) == [st EXCEPT !.result = e]
    IN IF delta > 0
       THEN LET available == unchecked_sub(u.total_collateral, u.locked_collateral,
                                           overflow_checks)
                margin == p.margin + delta
                position_value == (p.size * p.entry_price) \div SUPPORTED_ASSET_DECIMALS
            IN IF available.panic THEN fail("Panic")
               ELSE IF available.value < delta THEN fail("InsufficientCollateral")
               ELSE [st EXCEPT
                        !.position.margin = margin,
                        !.user.locked_collateral = @ + delta,
                        !.position.leverage =
                            as_u16(IF position_value \div margin < MAX_LEVERAGE
                                   THEN position_value \div margin
                                   ELSE MAX_LEVERAGE)]
       ELSE LET remove_amount == 0 - delta
                min_margin == calculate_initial_margin(p.size, p.entry_price, p.leverage)
                locked == unchecked_sub(u.locked_collateral, remove_amount,
                                        overflow_checks)
            IN IF ~(p.margin > remove_amount) THEN fail("CannotRemoveMargin")
               ELSE IF min_margin = <<>> THEN fail("ArithmeticOverflow")
               ELSE IF p.margin - remove_amount < min_margin[1]
                    THEN fail("CannotRemoveMargin")
               ELSE IF locked.panic THEN fail("Panic")
               ELSE [st EXCEPT
                        !.position.margin = p.margin - remove_amount,
                        !.user.locked_collateral = locked.value]

\* modify_position; new_size and margin_delta are <<>> (None) or <<value>>
program_modify_position(id, new_size, margin_delta, overflow_checks) ==
    LET p == ProgramPosition(id)
        st0 == [result |-> "Ok", user |-> UserOf(id[1]), position |-> p]
    IN IF p = NoPosition THEN [st0 EXCEPT !.result = "AccountNotInitialized"]
       ELSE IF p.status # "Open" THEN [st0 EXCEPT !.result = "PositionNotOpen"]
       ELSE LET st1 == IF new_size = <<>> THEN st0
                       ELSE modify_size(st0, new_size[1], overflow_checks)
            IN IF st1.result # "Ok" \/ margin_delta = <<>> THEN st1
               ELSE modify_margin(st1, margin_delta[1], overflow_checks)

\* close_position; final_price is the converted oracle price (0: none)
program_close_position(id, final_price) ==
    LET p == ProgramPosition(id)
        u == UserOf(id[1])
        fail(e) == [result |-> e, user |-> u, position |-> p]
    IN IF p = NoPosition THEN fail("AccountNotInitialized")
       ELSE IF p.status # "Open" THEN fail("PositionNotOpen")
       ELSE IF final_price = 0 THEN fail("InvalidPrice")
       ELSE LET total_pnl ==
                    program_calculate_unrealized_pnl(p.size, p.entry_price,
                                                     final_price, p.side)
                        + p.funding_accrued
            IN IF u.locked_collateral < p.margin THEN fail("ArithmeticOverflow")
               ELSE IF u.position_count = 0 THEN fail("ArithmeticOverflow")
               ELSE [result |-> "Ok",
                     user |-> [u EXCEPT
                         !.locked_collateral = @ - p.margin,
                         !.total_collateral =
                             IF total_pnl >= 0 THEN @ + total_pnl
                             ELSE IF @ >= 0 - total_pnl THEN @ + total_pnl ELSE 0,
                         !.total_pnl = @ + total_pnl,
                         !.position_count = @ - 1],
                     position |-> [p EXCEPT !.realized_pnl = total_pnl,
                                            !.status = "Closed"]]

\* an instruction's effect on the accounts: an error changes nothing
ApplyInstruction(op, id, r) ==
    /\ IF r.result = "Ok"
       THEN /\ user_accounts' = Put(user_accounts, id[1], r.user)
            /\ program_positions' =
                   IF op \in {"initialize_user", "add_collateral"}
                   THEN program_positions
                   ELSE Put(program_positions, id, r.position)
       ELSE UNCHANGED programVars
    /\ last' = NoOp
    /\ UNCHANGED <<chain, position_count_total, positions, positions_by_asset,
                   positions_by_user, zsets, alertCount, pending>>
    /\ UNCHANGED <<oracleVars, runVars, otherVars>>

NextProgramId(owner) ==
    <<owner, IF UserOf(owner) = NoUser THEN 0 ELSE UserOf(owner).position_count_total>>

InitializeUser(owner) ==
    \E r \in {initialize_user(owner)} :
        ApplyInstruction("initialize_user", <<owner, 0>>, r)

AddCollateral(owner, amount) ==
    /\ UserOf(owner) # NoUser => UserOf(owner).total_collateral + amount <= MaxCollateral
    /\ \E r \in {add_collateral(owner, amount)} :
          ApplyInstruction("add_collateral", <<owner, 0>>, r)

ProgramOpenPosition(owner, side, size, leverage, expected_price, maximum_slippage_bps, entry_price) ==
    \E r \in {program_open_position(owner, side, size, leverage, expected_price,
                                    maximum_slippage_bps, entry_price)} :
        /\ r.result = "Ok" => NextProgramId(owner)[2] < MaxProgramOpens
        /\ ApplyInstruction("program_open", NextProgramId(owner), r)

ProgramModifyPosition(id, new_size, margin_delta, overflow_checks) ==
    \E r \in {program_modify_position(id, new_size, margin_delta, overflow_checks)} :
        /\ r.result = "Ok" => r.user.locked_collateral <= MaxCollateral
        /\ ApplyInstruction("program_modify", id, r)

ProgramClosePosition(id, final_price) ==
    \E r \in {program_close_position(id, final_price)} :
        ApplyInstruction("program_close", id, r)

ProgramOwners == {"o1"}
ProgramSizes == {0, 1000000}
ProgramLeverages == {0, 1, 10}
ExpectedPrices == {1000}
SlippageTolerances == {ExampleSlippageBps}
ProgramOraclePrices == {0, 800, 1000}
ClosePrices == {0, 800, 2000}
Deposits == {MaxCollateral}
NewSizes == {<<>>, <<2000000>>}
MarginDeltas == {<<>>, <<500>>, <<0>>, <<-50>>}
ProgramIds == ProgramOwners \X (0 .. MaxProgramOpens - 1)

NextProgram ==
    \/ \E o \in ProgramOwners : InitializeUser(o)
    \/ \E o \in ProgramOwners, a \in Deposits : AddCollateral(o, a)
    \/ \E o \in ProgramOwners, sd \in Sides, q \in ProgramSizes, l \in ProgramLeverages,
          x \in ExpectedPrices, m \in SlippageTolerances, e \in ProgramOraclePrices :
           ProgramOpenPosition(o, sd, q, l, x, m, e)
    \/ \E id \in ProgramIds, n \in NewSizes, d \in MarginDeltas, c \in BOOLEAN :
           ProgramModifyPosition(id, n, d, c)
    \/ \E id \in ProgramIds, e \in ClosePrices : ProgramClosePosition(id, e)

SpecProgram == Init /\ [][NextProgram]_vars

\* size arguments, zero among them, through the program's open_position and
\* modify_position and through the backend's open_position, modify_position
\* and refresh cycle
SizeArguments == {0, 1}
SizeNewSizes == {<<0>>, <<2>>}
ProgramSizeArguments == {0, 1000000}
ProgramNewSizes == {<<0>>, <<2000000>>}

\* the size checks do not look at the side
SizeSides == {"Long"}
NextSize ==
    \/ \E o \in ProgramOwners : InitializeUser(o)
    \/ \E o \in ProgramOwners, a \in Deposits : AddCollateral(o, a)
    \/ \E o \in ProgramOwners, sd \in SizeSides, q \in ProgramSizeArguments,
          x \in ExpectedPrices, m \in SlippageTolerances :
           ProgramOpenPosition(o, sd, q, Leverage, x, m, x)
    \/ \E id \in ProgramIds, n \in ProgramNewSizes, c \in BOOLEAN :
           ProgramModifyPosition(id, n, <<>>, c)
    \/ \E o \in ManagerOwners, s \in ManagerSymbols, sd \in SizeSides, q \in SizeArguments,
          e \in StoreEntryPrices, tx_ok \in BOOLEAN :
           Opens(MaxManagerOpens, q, Leverage, e, tx_ok)
               /\ OpenSubmit(o, s, sd, q, Leverage, e, tx_ok)
    \/ \E p \in pending : OpenRegister(p, 0)
    \/ \E accounts \in Perms(OnChain) : Refresh(accounts, 0)
    \/ \E id \in KnownIds(ManagerOwners), new_size \in SizeNewSizes, tx_ok \in BOOLEAN :
           ModifyPosition(id, new_size, tx_ok)

SpecSize == Init /\ [][NextSize]_vars

\* validate_slippage applied to one input after the other
ValidateSlippage(expected_price, actual_price, max_slippage_bps, side) ==
    /\ last' = [NoOp EXCEPT
           !.op = "validate_slippage",
           !.result = validate_slippage(expected_price, actual_price,
                                        max_slippage_bps, side),
           !.request = [expected_price |-> expected_price,
                        actual_price |-> actual_price,
                        max_slippage_bps |-> max_slippage_bps, side |-> side]]
    /\ UNCHANGED <<chain, position_count_total, positions, positions_by_asset,
                   positions_by_user, zsets, alertCount, pending>>
    /\ UNCHANGED <<oracleVars, runVars, programVars, otherVars>>

SlippageExpected == {0, 100, 1000, 50000}
SlippageActual == {0, 100, 756, 800, 1000, 1006, 50300, 2 * U16_RANGE}
SlippageMax == {0, ExampleSlippageBps, 100, 5000, MAX_SLIPPAGE_BPS}

NextValidate ==
    \E x \in SlippageExpected, a \in SlippageActual, m \in SlippageMax, sd \in Sides :
        ValidateSlippage(x, a, m, sd)

SpecValidate == Init /\ [][NextValidate]_vars

\* ------------------------------------------------- PositionMonitor::update_position
\* a direct call of the public method with a record that replaces a stored one
UpdatedSides == Sides
UpdatedLiquidationPrices == {46250, 49500}

UpdatePosition(position) ==
    /\ position.position_account \in DOMAIN positions
    /\ \E r \in {update_position(Handler(0), position)} : Commit(r)
    /\ last' = [NoOp EXCEPT !.op = "update", !.id = position.position_account]
    /\ UNCHANGED <<chain, position_count_total, pending>>
    /\ UNCHANGED <<oracleVars, runVars, programVars, otherVars>>

NextUpdate ==
    \/ \E o \in ManagerOwners, s \in DetectSymbols, sd \in Sides, e \in StoreEntryPrices :
           OpenPosition(o, s, sd, 1, e, 0)
    \/ \E id \in DOMAIN positions, sd \in UpdatedSides, lp \in UpdatedLiquidationPrices :
           UpdatePosition([positions[id] EXCEPT !.side = sd, !.liquidation_price = lp])
    \/ \E accounts \in Perms(OnChain) : Refresh(accounts, 0)

SpecUpdate == Init /\ [][NextUpdate]_vars

\* ------------------------------------- registration with the sorted-set store down
\* add_position with a failing ZADD, followed by the periodic refresh task; the
\* refresher loop runs one refresh per tick for as long as the monitor runs
NextRecover ==
    \/ \E o \in DetectOwners, s \in DetectSymbols, sd \in Sides, e \in EntryPrices :
           \E f \in 0 .. 1 : OpenPosition(o, s, sd, 1, e, f)
    \/ \E id \in PosIds : ChainClose(id)
    \/ \E accounts \in Perms(OnChain) : Refresh(accounts, 0)

SpecRecover == Init /\ [][NextRecover]_vars

FairSpecRecover ==
    SpecRecover /\ WF_vars(\E accounts \in Perms(OnChain) : Refresh(accounts, 0))

\* ------------------------------------------------------- websocket_handler
\* One connection.  The receive task applies the client's commands to
\* subscribed_symbols; the send task takes a message from one of the three
\* broadcast channels and forwards it when the filter lets it through.
MessageKinds == {"price_update", "position_update", "liquidation_alert"}
ClientCommands == {"subscribe_symbol", "unsubscribe_symbol", "invalid"}

\* the filter of the send task: an empty set means every symbol
forwards(subs, symbol) == subs = {} \/ symbol \in subs

\* recv_task: one text frame of the client
WsCommand(cmd, symbol) ==
    /\ CASE cmd = "subscribe_symbol" ->
                /\ subscribed_symbols' = subscribed_symbols \cup {symbol}
                /\ ws_commands' = [ws_commands EXCEPT ![symbol] = cmd]
                /\ ws_last' = NoMessage
         [] cmd = "unsubscribe_symbol" ->
                /\ subscribed_symbols' = subscribed_symbols \ {symbol}
                /\ ws_commands' = [ws_commands EXCEPT ![symbol] = cmd]
                /\ ws_last' = NoMessage
         [] OTHER ->
                /\ ws_last' = [kind |-> "error", symbol |-> <<>>, delivered |-> TRUE]
                /\ UNCHANGED <<subscribed_symbols, ws_commands>>
    /\ UNCHANGED <<storeVars, oracleVars, runVars, programVars, dropped, detectors, callVars>>

\* send_task: one message received from a broadcast channel
WsBroadcast(kind, symbol) ==
    /\ ws_last' = [kind |-> kind, symbol |-> symbol,
                   delivered |-> forwards(subscribed_symbols, symbol)]
    /\ UNCHANGED <<subscribed_symbols, ws_commands>>
    /\ UNCHANGED <<storeVars, oracleVars, runVars, programVars, dropped, detectors, callVars>>

NextWs ==
    \/ \E cmd \in ClientCommands, s \in WsSymbols : WsCommand(cmd, s)
    \/ \E kind \in MessageKinds, s \in WsSymbols : WsBroadcast(kind, s)

SpecWs == Init /\ [][NextWs]_vars

\* --------------------------------------------- dropping the PositionMonitor
\* PositionMonitor has no Drop implementation and start() keeps no JoinHandle:
\* the spawned tasks own their clones of the shared fields (clone_for_task),
\* so dropping the value start() was called on changes nothing but ends the
\* caller's access to start() and stop().
DropMonitor ==
    /\ ~dropped
    /\ dropped' = TRUE
    /\ UNCHANGED <<storeVars, oracleVars, runVars, programVars, wsVars, detectors, callVars>>

NextDrop ==
    \/ ~dropped /\ Start
    \/ ~dropped /\ Stop
    \/ DropMonitor
    \/ \E k \in Kinds, ts \in TaskStates : TaskStep(k, ts)

SpecDrop == Init /\ [][NextDrop]_vars

\* every live task is scheduled again (tokio worker threads)
FairSpecDrop ==
    SpecDrop /\ \A k \in Kinds, ts \in TaskStates : WF_vars(TaskStep(k, ts))

\* ------------------------------------------------------- MarginCalculator
\* calculate_liquidation_price as a Result: <<price>> or <<>> for the error
\* "Leverage cannot be zero"; here with the Long branch for both sides
try_calculate_liquidation_price_long_only(side, entry_price, leverage, mmr_bps) ==
    IF leverage = 0
    THEN <<>>
    ELSE <<calculate_liquidation_price("Long", entry_price, leverage, mmr_bps)>>
\* MarginCalculator::calculate_liquidation_price as a Result
try_calculate_liquidation_price(side, entry_price, leverage, mmr_bps) ==
    IF leverage = 0
    THEN <<>>
    ELSE <<calculate_liquidation_price(side, entry_price, leverage, mmr_bps)>>

\* entry prices are multiples of 1000 and leverages divide 10000, so every
\* result is a whole number and the basis-point arithmetic is exact
MarginEntryPrices == {10000, 20000, 30000, 48000, 50000}
MarginLeverages == {0, 1, 2, 4, 5, 10, 20, 25, 50, 100}
MarginRatiosBps == {0, 50, 100, MmrBps}
MarginSizes == 0 .. 3
MarginMarkPrices == {0, 46000, 48000, 50000, 52000}

CalculateLiquidationPrice(side, entry_price, leverage, mmr_bps) ==
    /\ last' = [NoOp EXCEPT
           !.op = "calculate_liquidation_price",
           !.result = try_calculate_liquidation_price(side, entry_price, leverage, mmr_bps),
           !.request = [side |-> side, entry_price |-> entry_price,
                        leverage |-> leverage, mmr_bps |-> mmr_bps]]
    /\ UNCHANGED <<chain, position_count_total, positions, positions_by_asset,
                   positions_by_user, zsets, alertCount, pending>>
    /\ UNCHANGED <<oracleVars, runVars, programVars, otherVars>>

\* calculate_unrealized_pnl applied to the same size and prices for both sides
CalculateUnrealizedPnl(size, mark_price, entry_price) ==
    /\ last' = [NoOp EXCEPT
           !.op = "calculate_unrealized_pnl",
           !.result = [side \in Sides |->
                          calculate_unrealized_pnl(side, size, mark_price, entry_price)],
           !.request = [size |-> size, mark_price |-> mark_price,
                        entry_price |-> entry_price]]
    /\ UNCHANGED <<chain, position_count_total, positions, positions_by_asset,
                   positions_by_user, zsets, alertCount, pending>>
    /\ UNCHANGED <<oracleVars, runVars, programVars, otherVars>>

NextMargin ==
    \/ \E sd \in Sides, e \in MarginEntryPrices, l \in MarginLeverages, m \in MarginRatiosBps :
           CalculateLiquidationPrice(sd, e, l, m)
    \/ \E q \in MarginSizes, m \in MarginMarkPrices, e \in MarginMarkPrices :
           CalculateUnrealizedPnl(q, m, e)

SpecMargin == Init /\ [][NextMargin]_vars

\* ------------------------------------------------- overlapping detections
\* check_liquidations_for_price_update step by step, one Redis command or one
\* publication per step, so that the calls of two price tasks can interleave
\* (a stop() followed by start() leaves the earlier price task alive next to
\* the new one, and the method takes no lock).  A detector is at one of
\*   range1  the ZRANGEBYSCORE of the side's Liquidated range
\*   range2  the ZRANGEBYSCORE of the side's Liquidating range
\*   score   get_liquidation_price (ZSCORE) of the next member of the loop
\*   emit    emit_alert for that member
\*   rem     remove_from_redis_sorted_set (ZREM) of that member
\* first and second are the two vectors read for the side, cur the loop.
ConcurrentTickPrices == {46000, 50000}

LiquidatedRange(side, current_price) ==
    IF side = "Long"
    THEN <<(<<current_price, 1>>), (<<U64_MAX, 1>>)>>
    ELSE <<(<<0, 1>>), (<<current_price, 1>>)>>
LiquidatingRange(side, current_price) ==
    IF side = "Long"
    THEN <<long_lower_bound(current_price), (<<current_price, 1>>)>>
    ELSE <<(<<current_price, 1>>), short_upper_bound(current_price)>>

StartedDetector(symbol, current_price) ==
    [pc |-> "range1", symbol |-> symbol, price |-> current_price, side |-> "Long",
     first |-> <<>>, second |-> <<>>, cur |-> 1, score |-> 0]

CurrentList(d) == IF d.cur = 1 THEN d.first ELSE d.second
PopCurrent(d) ==
    IF d.cur = 1 THEN [d EXCEPT !.first = Tail(@)] ELSE [d EXCEPT !.second = Tail(@)]

\* control flow after a loop step: the next member, the next loop, the Short
\* side, or the end of the call
RECURSIVE Advance(_)
Advance(d) ==
    IF CurrentList(d) # <<>>
    THEN [d EXCEPT !.pc = "score", !.score = 0]
    ELSE IF d.cur = 1
    THEN Advance([d EXCEPT !.cur = 2])
    ELSE IF d.side = "Long"
    THEN [d EXCEPT !.pc = "range1", !.side = "Short", !.cur = 1, !.score = 0]
    ELSE IdleDetector

\* the price task calls check_liquidations_for_price_update(symbol, price)
DetectStart(i, symbol, current_price) ==
    /\ detectors[i] = IdleDetector
    /\ detectors' = [detectors EXCEPT ![i] = StartedDetector(symbol, current_price)]
    /\ last' = NoOp
    /\ UNCHANGED <<chain, position_count_total, positions, positions_by_asset,
                   positions_by_user, zsets, alertCount, pending>>
    /\ UNCHANGED <<oracleVars, runVars, programVars, wsVars, dropped, callVars>>

\* one await of the call in flight
DetectStep(i) ==
    LET d == detectors[i]
        key == <<d.symbol, d.side>>
        m == Head(CurrentList(d))
    IN /\ d # IdleDetector
       /\ CASE d.pc = "range1" ->
                   /\ detectors' = [detectors EXCEPT ![i] =
                          [d EXCEPT !.pc = "range2",
                                    !.first = get_positions_in_range(
                                        zsets[key],
                                        LiquidatedRange(d.side, d.price)[1],
                                        LiquidatedRange(d.side, d.price)[2])]]
                   /\ UNCHANGED <<zsets, alertCount>>
            [] d.pc = "range2" ->
                   /\ detectors' = [detectors EXCEPT ![i] =
                          Advance([d EXCEPT !.second = get_positions_in_range(
                                        zsets[key],
                                        LiquidatingRange(d.side, d.price)[1],
                                        LiquidatingRange(d.side, d.price)[2])])]
                   /\ UNCHANGED <<zsets, alertCount>>
            [] d.pc = "score" ->
                   /\ detectors' = [detectors EXCEPT ![i] =
                          IF m \in DOMAIN zsets[key]
                          THEN [d EXCEPT !.pc = "emit", !.score = zsets[key][m]]
                          ELSE Advance(PopCurrent(d))]
                   /\ UNCHANGED <<zsets, alertCount>>
            [] d.pc = "emit" ->
                   /\ alertCount' =
                          emit_alert(Handler(0), m, d.symbol, d.side, d.score, d.price,
                                     IF d.cur = 1 THEN "Liquidated" ELSE "Liquidating").cnt
                   /\ detectors' = [detectors EXCEPT ![i] = [d EXCEPT !.pc = "rem"]]
                   /\ UNCHANGED zsets
            [] d.pc = "rem" ->
                   /\ \E r \in {alert_remove_from_redis_sorted_set(
                                    Handler(0), d.symbol, d.side, m)} :
                          zsets' = r.z /\ alertCount' = r.cnt
                   /\ detectors' = [detectors EXCEPT ![i] = Advance(PopCurrent(d))]
       /\ last' = NoOp
       /\ UNCHANGED <<chain, position_count_total, positions, positions_by_asset,
                      positions_by_user, pending>>
       /\ UNCHANGED <<oracleVars, runVars, programVars, wsVars, dropped, callVars>>

NextConcurrent ==
    \/ \E o \in DetectOwners, s \in DetectSymbols, sd \in Sides, e \in StoreEntryPrices :
           TotalOpened < MaxDetectOpens /\ OpenPosition(o, s, sd, 1, e, 0)
    \/ \E i \in DetectorIds, s \in DetectSymbols, p \in ConcurrentTickPrices :
           DetectStart(i, s, p)
    \/ \E i \in DetectorIds : DetectStep(i)

SpecConcurrent == Init /\ [][NextConcurrent]_vars

\* ------------------------------------------------ collateral accounting
\* the instructions that move collateral, with the arguments that open_position
\* accepts (the rejected ones change nothing)
AccountingSides == {"Long"}
NextAccounting ==
    \/ \E o \in ProgramOwners : InitializeUser(o)
    \/ \E o \in ProgramOwners, a \in Deposits : AddCollateral(o, a)
    \/ \E o \in ProgramOwners, sd \in AccountingSides, x \in ExpectedPrices,
          m \in SlippageTolerances :
           ProgramOpenPosition(o, sd, 1000000, Leverage, x, m, x)
    \/ \E id \in ProgramIds, n \in NewSizes, d \in MarginDeltas, c \in BOOLEAN :
           ProgramModifyPosition(id, n, d, c)
    \/ \E id \in ProgramIds, e \in ClosePrices : ProgramClosePosition(id, e)

SpecAccounting == Init /\ [][NextAccounting]_vars

\* ---------------------------------------- interleaved calls and RwLocks
\* A call is the sequence of steps it has still to take.  A step waits for
\* the guard it acquires (acq: <<>> or <<guard, mode>>), performs its effect
\* while holding it and then releases the guards in rel.  tokio's RwLock is
\* fair: a request is granted when no conflicting holder exists and no
\* earlier request is queued.
Step(eff, arg, acq, rel) == [eff |-> eff, arg |-> arg, acq |-> acq, rel |-> rel]

Compatible(holders, mode) ==
    IF mode = "w" THEN holders = {} ELSE \A h \in holders : h[2] = "r"

Grantable(c, g, mode) ==
    /\ Compatible(guards[g].holders, mode)
    /\ IF guards[g].waiting = <<>> THEN TRUE ELSE Head(guards[g].waiting) = c

Acquired(gs, c, acq) ==
    IF acq = <<>>
    THEN gs
    ELSE [gs EXCEPT ![acq[1]] = [holders |-> @.holders \cup {<<c, acq[2]>>},
                                 waiting |-> Retain(@.waiting, c)]]

Released(gs, c, rel) ==
    [g \in GuardNames |->
        IF g \in rel
        THEN [gs[g] EXCEPT !.holders = {h \in @ : h[1] # c}]
        ELSE gs[g]]

RECURSIVE InRankOrder(_)
InRankOrder(ids) ==
    IF ids = {}
    THEN <<>>
    ELSE LET id == CHOOSE i \in ids : \A j \in ids : Rank(i) <= Rank(j)
         IN <<id>> \o InRankOrder(ids \ {id})

\* add_position: the map entry, the two index entries and the sorted-set entry
\* are written one after another, each under its own guard
\* add_position taking the by-symbol guard first and keeping it while it waits
\* for the position map
AddPositionStepsIndexFirst(position) ==
    <<Step("push_asset", position, <<"positions_by_asset", "w">>, {}),
      Step("insert", position, <<"positions", "w">>, {"positions", "positions_by_asset"}),
      Step("push_user", position, <<"positions_by_user", "w">>, {"positions_by_user"})>>
    \o (IF is_open(position) THEN <<Step("zadd", position, <<>>, {})>> ELSE <<>>)
AddPositionSteps(position) ==
    <<Step("insert", position, <<"positions", "w">>, {"positions"}),
      Step("push_asset", position, <<"positions_by_asset", "w">>, {"positions_by_asset"}),
      Step("push_user", position, <<"positions_by_user", "w">>, {"positions_by_user"})>>
    \o (IF is_open(position) THEN <<Step("zadd", position, <<>>, {})>> ELSE <<>>)

UpdatePositionSteps(position) ==
    <<Step("insert", position, <<"positions", "w">>, {"positions"})>>

RemovePositionSteps(id) ==
    <<Step("remove", id, <<"positions", "w">>, {"positions"})>>

RemovePositionRest(position) ==
    <<Step("retain_asset", position, <<"positions_by_asset", "w">>, {"positions_by_asset"}),
      Step("retain_user", position, <<"positions_by_user", "w">>, {"positions_by_user"}),
      Step("zrem", position, <<>>, {})>>

RefreshSteps ==
    <<Step("scan", <<>>, <<>>, {}),
      Step("stale", <<>>, <<"positions", "r">>, {"positions"})>>

\* update_all_pnl rewriting the positions without the write guard on the map
UpdateAllPnlStepsUnguarded ==
    <<Step("pnl_lock", <<>>, <<>>, {}),
      Step("pnl_begin", <<>>, <<"oracle_client", "r">>, {}),
      Step("pnl_end", <<>>, <<>>, {"oracle_client"})>>
UpdateAllPnlSteps ==
    <<Step("pnl_lock", <<>>, <<"positions", "w">>, {}),
      Step("pnl_begin", <<>>, <<"oracle_client", "r">>, {}),
      Step("pnl_end", <<>>, <<>>, {"oracle_client", "positions"})>>

PricePollSteps(symbol, response) ==
    <<Step("price_lock", <<>>, <<"oracle_client", "r">>, {}),
      Step("fetch", [symbol |-> symbol, response |-> response],
           <<"latest_prices", "w">>, {"latest_prices"}),
      Step("price_unlock", <<>>, <<>>, {"oracle_client"})>>

ReadOps ==
    {"get_position", "get_all_positions", "get_user_positions",
     "get_positions_by_asset", "get_statistics"}

ReadSteps(op, id) ==
    CASE op = "get_position" ->
           <<Step("get_position", id, <<"positions", "r">>, {"positions"})>>
      [] op = "get_all_positions" ->
           <<Step("get_all_positions", <<>>, <<"positions", "r">>, {"positions"})>>
      [] op = "get_user_positions" ->
           <<Step("user_ids", id[1], <<"positions_by_user", "r">>, {"positions_by_user"})>>
      [] op = "get_positions_by_asset" ->
           <<Step("asset_ids", BTC_USD, <<"positions_by_asset", "r">>,
                  {"positions_by_asset"})>>
      [] op = "get_statistics" ->
           <<Step("stat_positions", <<>>, <<"positions", "r">>, {}),
             Step("stat_assets", <<>>, <<"positions_by_asset", "r">>,
                  {"positions_by_asset", "positions"})>>

IndexEntry(index, k) == IF k \in DOMAIN index THEN index[k] ELSE <<>>

\* the positions of the listed accounts that are in the map (filter_map)
Collect(position_accounts) ==
    LET present == SelectSeq(position_accounts, LAMBDA a : a \in DOMAIN positions)
    IN [i \in DOMAIN present |-> positions[present[i]]]

RECURSIVE TotalUnrealizedPnl(_)
TotalUnrealizedPnl(ids) ==
    IF ids = {}
    THEN 0
    ELSE LET id == CHOOSE i \in ids : TRUE
         IN (IF is_open(positions[id]) THEN positions[id].unrealized_pnl ELSE 0)
            + TotalUnrealizedPnl(ids \ {id})

\* what a step does to the store, the price cache, the channels and the
\* caller's locals, and the steps it puts in front of the caller's remaining ones
Effect(c, step) ==
    LET st == Handler(0)
        loc == calls[c].loc
        arg == step.arg
        base == [st |-> st, cache |-> latest_prices, obs |-> observed,
                 ticks |-> price_ticks, push |-> <<>>, loc |-> loc,
                 ok |-> TRUE, updates |-> <<>>]
        Seen(op, result) == [op |-> op, result |-> result,
                             done |-> calls["pnl"].loc.done,
                             left |-> calls["pnl"].loc.left]
    IN CASE step.eff = "insert" ->
              [base EXCEPT !.st = update_position(st, arg)]
         [] step.eff = "push_asset" ->
              [base EXCEPT !.st.by_asset = PushIndex(@, arg.symbol, arg.position_account)]
         [] step.eff = "push_user" ->
              [base EXCEPT !.st.by_user = PushIndex(@, arg.owner, arg.position_account)]
         [] step.eff = "zadd" ->
              [base EXCEPT !.st = add_to_redis_sorted_set(st, arg)]
         [] step.eff = "remove" ->
              IF arg \notin DOMAIN positions
              THEN [base EXCEPT !.ok = FALSE]
              ELSE [base EXCEPT !.st.positions = Del(@, arg),
                                !.push = RemovePositionRest(positions[arg])]
         [] step.eff = "retain_asset" ->
              [base EXCEPT !.st.by_asset = RetainIndex(@, arg.symbol, arg.position_account)]
         [] step.eff = "retain_user" ->
              [base EXCEPT !.st.by_user = RetainIndex(@, arg.owner, arg.position_account)]
         [] step.eff = "zrem" ->
              [base EXCEPT !.st = remove_from_redis_sorted_set(st, arg)]
         [] step.eff = "scan" ->
              LET accounts == InRankOrder(OnChain)
              IN [base EXCEPT
                    !.loc = [loc EXCEPT !.seen = OnChain, !.stored = DOMAIN positions],
                    !.push = [i \in DOMAIN accounts |->
                                Step("check", to_domain_position(chain[accounts[i]], accounts[i]),
                                     <<"positions", "r">>, {"positions"})]]
         [] step.eff = "check" ->
              [base EXCEPT !.push = IF arg.position_account \in DOMAIN positions
                                    THEN UpdatePositionSteps(arg)
                                    ELSE AddPositionSteps(arg)]
         [] step.eff = "stale" ->
              LET unseen == InRankOrder({id \in DOMAIN positions :
                                id \notin loc.seen /\ is_open(positions[id])})
              IN [base EXCEPT !.push = [i \in DOMAIN unseen |->
                                          RemovePositionSteps(unseen[i])[1]]]
         [] step.eff = "pnl_begin" ->
              LET open == {id \in DOMAIN positions : is_open(positions[id])}
                  order == InRankOrder(open)
              IN [base EXCEPT
                    !.loc = [loc EXCEPT !.done = {}, !.left = open],
                    !.push = [i \in DOMAIN order |->
                                Step("pnl_one", order[i], <<"latest_prices", "r">>,
                                     {"latest_prices"})]]
         [] step.eff = "pnl_one" ->
              LET r == PnlLoop({arg}, positions, <<>>)
              IN [base EXCEPT
                    !.st.positions = r.positions,
                    !.updates = r.updates,
                    !.loc = [loc EXCEPT !.done = IF r.updates = <<>> THEN @ ELSE @ \cup {arg},
                                        !.left = @ \ {arg}]]
         [] step.eff = "pnl_end" ->
              [base EXCEPT !.loc = NoLocals]
         [] step.eff = "fetch" ->
              LET f == fetch_price(latest_prices, arg.symbol, arg.response)
              IN [base EXCEPT
                    !.cache = f.cache,
                    !.ok = f.ok,
                    !.push = IF f.ok
                             THEN <<Step("publish", [symbol |-> arg.symbol, price |-> f.price],
                                         <<>>, {})>>
                             ELSE <<>>]
         [] step.eff = "publish" ->
              [base EXCEPT
                    !.ticks = @ \cup {arg},
                    !.st = check_liquidations_for_price_update(arg.symbol, arg.price, st)]
         [] step.eff = "get_position" ->
              [base EXCEPT !.obs = Seen("get_position",
                    IF arg \in DOMAIN positions THEN <<positions[arg]>> ELSE <<>>)]
         [] step.eff = "get_all_positions" ->
              [base EXCEPT !.obs = Seen("get_all_positions", positions)]
         [] step.eff = "user_ids" ->
              [base EXCEPT !.push = <<Step("user_positions", IndexEntry(positions_by_user, arg),
                                           <<"positions", "r">>, {"positions"})>>]
         [] step.eff = "user_positions" ->
              [base EXCEPT !.obs = Seen("get_user_positions", Collect(arg))]
         [] step.eff = "asset_ids" ->
              [base EXCEPT !.push = <<Step("asset_positions", IndexEntry(positions_by_asset, arg),
                                           <<"positions", "r">>, {"positions"})>>]
         [] step.eff = "asset_positions" ->
              [base EXCEPT !.obs = Seen("get_positions_by_asset", Collect(arg))]
         [] step.eff = "stat_positions" ->
              [base EXCEPT !.obs = Seen("get_statistics",
                    [total_positions |-> Cardinality(DOMAIN positions),
                     open_positions |->
                         Cardinality({id \in DOMAIN positions : is_open(positions[id])}),
                     total_unrealized_pnl |-> TotalUnrealizedPnl(DOMAIN positions),
                     assets_monitored |-> 0])]
         [] step.eff = "stat_assets" ->
              [base EXCEPT !.obs.result.assets_monitored =
                               Cardinality(DOMAIN positions_by_asset)]
         [] OTHER -> base

\* the steps whose outcome the history variable last records
RecordedEffects == {"pnl_one", "remove"}

\* a caller takes the next step of its call
CallStep(c) ==
    /\ calls[c].todo # <<>>
    /\ LET step == Head(calls[c].todo)
       IN /\ step.acq # <<>> => Grantable(c, step.acq[1], step.acq[2])
          /\ \E e \in {Effect(c, step)} :
                /\ Commit(e.st)
                /\ latest_prices' = e.cache
                /\ observed' = e.obs
                /\ price_ticks' = e.ticks
                /\ calls' = [calls EXCEPT ![c].todo = e.push \o Tail(@), ![c].loc = e.loc]
                /\ last' = IF step.eff \in RecordedEffects
                            THEN [NoOp EXCEPT !.op = step.eff, !.result = c, !.ok = e.ok,
                                              !.updates = e.updates,
                                              !.id = IF step.eff = "remove"
                                                     THEN step.arg ELSE <<>>]
                            ELSE NoOp
          /\ guards' = Released(Acquired(guards, c, step.acq), c, step.rel)
    /\ UNCHANGED <<chain, position_count_total, pending, polled>>
    /\ UNCHANGED <<runVars, programVars, wsVars, dropped, detectors>>

\* a caller whose next step cannot have its guard queues for it
CallWait(c) ==
    /\ calls[c].todo # <<>>
    /\ LET step == Head(calls[c].todo)
       IN /\ step.acq # <<>>
          /\ ~Grantable(c, step.acq[1], step.acq[2])
          /\ c \notin Range(guards[step.acq[1]].waiting)
          /\ guards' = [guards EXCEPT ![step.acq[1]].waiting = Append(@, c)]
    /\ UNCHANGED <<storeVars, oracleVars, runVars, programVars, wsVars, dropped, detectors>>
    /\ UNCHANGED <<calls, observed, price_ticks>>

\* the calls made so far
Started ==
    calls["price"].runs + calls["pnl"].runs + calls["refresh"].runs
    + calls["manager"].runs + calls["reader"].runs

StartCall(c, steps) ==
    /\ calls[c].todo = <<>>
    /\ Started < MaxStarted
    /\ calls' = [calls EXCEPT ![c].todo = steps, ![c].runs = @ + 1]
    /\ UNCHANGED <<chain, position_count_total, positions, positions_by_asset,
                   positions_by_user, zsets, alertCount, last>>
    /\ UNCHANGED <<oracleVars, runVars, programVars, wsVars, dropped, detectors>>
    /\ UNCHANGED <<guards, observed, price_ticks>>

\* open_position registering the position its confirmed transaction created
StartAddPosition(position) ==
    /\ position \in pending
    /\ pending' = pending \ {position}
    /\ StartCall("manager", AddPositionSteps(position))

StartRefresh == StartCall("refresh", RefreshSteps) /\ UNCHANGED pending

StartUpdateAllPnl == StartCall("pnl", UpdateAllPnlSteps) /\ UNCHANGED pending

StartPricePoll(symbol, response) ==
    StartCall("price", PricePollSteps(symbol, response)) /\ UNCHANGED pending

StartRead(op, id) == StartCall("reader", ReadSteps(op, id)) /\ UNCHANGED pending

\* the price poll task and the PnL task running side by side over one open
\* position; neither ever has to queue for a guard the other holds
PublishCallers == {"price", "pnl"}
NextPublish ==
    \/ \E o \in OracleOwners, s \in DetectSymbols, sd \in Sides, q \in OracleSizes,
          e \in OracleEntryPrices :
           TotalOpened < MaxOracleOpens /\ OpenPosition(o, s, sd, q, e, 0)
    \/ \E s \in OracleSymbols : \E r \in PriceResponses(s) : StartPricePoll(s, r)
    \/ StartUpdateAllPnl
    \/ \E c \in PublishCallers : CallStep(c)
SpecPublish == Init /\ [][NextPublish]_vars

\* open_position registering positions while the refresh task runs; every
\* step holds one guard at a time, so no caller ever queues
IndexCallers == {"manager", "refresh"}
IndexOwners == {"o1"}
NextIndex ==
    \/ \E o \in IndexOwners, s \in DetectSymbols, sd \in Sides, e \in OracleEntryPrices,
          tx_ok \in BOOLEAN :
           Opens(MaxManagerOpens, 1, Leverage, e, tx_ok)
           /\ OpenSubmit(o, s, sd, 1, Leverage, e, tx_ok)
    \/ \E p \in pending : StartAddPosition(p)
    \/ StartRefresh
    \/ \E c \in IndexCallers : CallStep(c)
SpecIndex == Init /\ [][NextIndex]_vars

\* a PnL cycle over the open positions of one owner, one price poll and one
\* read operation running side by side
CycleCallers == {"price", "pnl", "reader"}
CycleSides == {"Long"}
\* one answer of the oracle that fetch_price accepts and one it rejects
CycleResponses(symbol) ==
    {r \in PriceResponses(symbol) : r.kind = "SendFailed" \/ (r.kind = "Ok" /\ r.expo > 0)}
\* add_position takes each guard it needs when no caller holds or awaits it
GuardsFree == \A g \in GuardNames : guards[g] = FreeGuard
NextCycle ==
    \/ \E o \in IndexOwners, s \in DetectSymbols, sd \in CycleSides, q \in OracleSizes,
          e \in OracleEntryPrices :
           GuardsFree /\ OpenPosition(o, s, sd, q, e, 0)
    \/ \E s \in DetectSymbols : \E r \in CycleResponses(s) : StartPricePoll(s, r)
    \/ StartUpdateAllPnl
    \/ \E op \in ReadOps, id \in KnownIds(IndexOwners) : StartRead(op, id)
    \/ \E c \in CycleCallers : CallStep(c)
    \/ \E c \in CycleCallers : CallWait(c)
SpecCycle == Init /\ [][NextCycle]_vars

\* every task and operation that takes a guard of the position monitor
\* It starts where owner o1 has opened two positions: the account of the
\* first has left the chain since it was registered (the next refresh will
\* remove it), the transaction of the second is confirmed and its
\* add_position has still to run.
StalePosition == LocalPosition(<<"o1", 0>>, "o1", BTC_USD, "Long", 1, Leverage, 50000)
ConfirmedPosition == LocalPosition(<<"o1", 1>>, "o1", BTC_USD, "Long", 1, Leverage, 50000)
EmptyStore ==
    [positions |-> <<>>, by_asset |-> <<>>, by_user |-> <<>>, z |-> [k \in Keys |-> <<>>],
     cnt |-> <<>>, n |-> 0, fault |-> 0, err |-> FALSE, out |-> <<>>]
InitGuards ==
    /\ chain = [id \in PosIds |->
                  IF id = ConfirmedPosition.position_account
                  THEN ChainAccount("o1", BTC_USD, "Long", 1, Leverage, 50000)
                  ELSE NoAccount]
    /\ position_count_total = [o \in Owners |-> IF o = "o1" THEN 2 ELSE 0]
    /\ \E r \in {add_position(EmptyStore, StalePosition)} :
          /\ positions = r.positions
          /\ positions_by_asset = r.by_asset
          /\ positions_by_user = r.by_user
          /\ zsets = r.z
          /\ alertCount = r.cnt
    /\ pending = {ConfirmedPosition}
    /\ last = NoOp
    /\ InitOracle /\ InitRun /\ InitProgram /\ InitWs /\ InitOther /\ InitCalls

NextGuards ==
    \/ \E p \in pending : StartAddPosition(p)
    \/ StartRefresh
    \/ \E s \in DetectSymbols : \E r \in CycleResponses(s) : StartPricePoll(s, r)
    \/ StartUpdateAllPnl
    \/ \E op \in ReadOps, id \in KnownIds(IndexOwners) : StartRead(op, id)
    \/ \E c \in Callers : CallStep(c)
    \/ \E c \in Callers : CallWait(c)
SpecGuards == InitGuards /\ [][NextGuards]_vars

\* ================================================================== claims
IndexedUnder(index, id) == {k \in DOMAIN index : id \in Range(index[k])}
Occurrences(index, id) ==
    LET keys == DOMAIN index
        RECURSIVE Sum(_)
        Sum(ks) == IF ks = {} THEN 0
                   ELSE LET k == CHOOSE x \in ks : TRUE
                        IN Count(index[k], id) + Sum(ks \ {k})
    IN Sum(keys)
MemberOf(id) == {k \in Keys : id \in DOMAIN zsets[k]}

\* C1: every identifier listed in the by-symbol index under s is a stored
\* position with symbol s, and every identifier listed in the by-owner index
\* under o is a stored position with owner o.
C1_IndexMatchesStore ==
    /\ \A s \in DOMAIN positions_by_asset : \A i \in Range(positions_by_asset[s]) :
           i \in DOMAIN positions /\ positions[i].symbol = s
    /\ \A o \in DOMAIN positions_by_user : \A i \in Range(positions_by_user[o]) :
           i \in DOMAIN positions /\ positions[i].owner = o

\* C2: every member i of the liquidation set of (symbol s, side) is a stored
\* position with symbol s, that side and an open status (Opening or Open).
C2_MembersAreOpenStored ==
    \A k \in Keys : \A i \in DOMAIN zsets[k] :
        /\ i \in DOMAIN positions
        /\ positions[i].symbol = k[1]
        /\ positions[i].side = k[2]
        /\ is_open(positions[i])

\* C3: after add_position is called for an identifier that the store already
\* holds, the by-symbol index and the by-owner index each list that identifier
\* exactly once (the primary map holds one record by construction).
C3_AddIsIdempotent ==
    (last.op = "add" /\ last.existed) =>
        /\ last.id \in DOMAIN positions
        /\ Occurrences(positions_by_asset, last.id) = 1
        /\ Occurrences(positions_by_user, last.id) = 1

AlertsFor(side, risk_type, m) ==
    {n \in DOMAIN last.alerts :
        /\ last.alerts[n].side = side
        /\ last.alerts[n].risk_type = risk_type
        /\ last.alerts[n].position_account = m}
AlertsOfSide(side) == {n \in DOMAIN last.alerts : last.alerts[n].side = side}
CleanDetect == last.op = "detect" /\ ~last.failed
LongLiquidated(score, P) == score >= P
LongAtRisk(score, P) == score * 100 >= P * (100 - AlertThresholdPct) /\ score < P
ShortLiquidated(score, P) == score <= P
ShortAtRisk(score, P) == score > P /\ score * 100 <= P * (100 + AlertThresholdPct)

\* C4: a detection for the tick (S, P) in which every Redis command succeeds
\* publishes, over the Long set of S, one Liquidated alert for each member whose
\* liquidation price is >= P, one Liquidating alert for each member whose
\* liquidation price lies in [P*(1-t), P), and no other Long alert; each alert
\* carries the member's score and P, and the alerted member leaves the set.
C4_LongDetection ==
    CleanDetect =>
        LET before == last.before["Long"]
            P == last.price
        IN /\ \A m \in DOMAIN before :
                 /\ Cardinality(AlertsFor("Long", "Liquidated", m)) =
                        (IF LongLiquidated(before[m], P) THEN 1 ELSE 0)
                 /\ Cardinality(AlertsFor("Long", "Liquidating", m)) =
                        (IF LongAtRisk(before[m], P) THEN 1 ELSE 0)
                 /\ (LongLiquidated(before[m], P) \/ LongAtRisk(before[m], P))
                        => m \notin DOMAIN zsets[<<last.symbol, "Long">>]
           /\ \A n \in AlertsOfSide("Long") :
                 /\ last.alerts[n].position_account \in DOMAIN before
                 /\ last.alerts[n].liquidation_price =
                        before[last.alerts[n].position_account]
                 /\ last.alerts[n].current_price = P
                 /\ last.alerts[n].symbol = last.symbol

\* C4 witness: one clean detection at tick 46000 liquidated a Long member with
\* liquidation price 46250 and put a second Long member (44400) at risk.
C4_Witness ==
    /\ CleanDetect
    /\ last.price = 46000
    /\ \E m1, m2 \in DOMAIN last.before["Long"] :
          /\ last.before["Long"][m1] = 46250
          /\ last.before["Long"][m2] = 44400
          /\ AlertsFor("Long", "Liquidated", m1) # {}
          /\ AlertsFor("Long", "Liquidating", m2) # {}
          /\ m1 \notin DOMAIN zsets[<<last.symbol, "Long">>]

\* C5: a detection for the tick (S, P) in which every Redis command succeeds
\* publishes, over the Short set of S, one Liquidated alert for each member
\* whose liquidation price is <= P, one Liquidating alert for each member whose
\* liquidation price lies in (P, P*(1+t)], and no other Short alert.
C5_ShortDetection ==
    CleanDetect =>
        LET before == last.before["Short"]
            P == last.price
        IN /\ \A m \in DOMAIN before :
                 /\ Cardinality(AlertsFor("Short", "Liquidated", m)) =
                        (IF ShortLiquidated(before[m], P) THEN 1 ELSE 0)
                 /\ Cardinality(AlertsFor("Short", "Liquidating", m)) =
                        (IF ShortAtRisk(before[m], P) THEN 1 ELSE 0)
           /\ \A n \in AlertsOfSide("Short") :
                 /\ last.alerts[n].position_account \in DOMAIN before
                 /\ last.alerts[n].liquidation_price =
                        before[last.alerts[n].position_account]
                 /\ last.alerts[n].current_price = P

\* C5 witness: a clean detection at tick 53750 over a Short set holding a
\* member with liquidation price exactly 53750 and one with 51600: both are
\* Liquidated, none is Liquidating.
C5_Witness ==
    /\ CleanDetect
    /\ last.price = 53750
    /\ \E m1, m2 \in DOMAIN last.before["Short"] :
          /\ last.before["Short"][m1] = 53750
          /\ last.before["Short"][m2] = 51600
          /\ AlertsFor("Short", "Liquidated", m1) # {}
          /\ AlertsFor("Short", "Liquidated", m2) # {}
          /\ AlertsFor("Short", "Liquidating", m1) = {}

\* C6: within one residency of a member in a liquidation set (from its
\* insertion to its removal) at most one Liquidated and at most one Liquidating
\* alert is published for it.
C6_OneAlertPerResidency ==
    \A km \in DOMAIN alertCount :
        alertCount[km].Liquidated <= 1 /\ alertCount[km].Liquidating <= 1

\* C7: after a completed refresh cycle, every position that was in the store
\* with an open status and that the scan did not return is gone from the
\* store, from the by-symbol and by-owner indices and from the liquidation sets.
C7_UnseenOpenRemoved ==
    (last.op = "refresh" /\ last.ok) =>
        \A i \in last.openBefore \ last.scanned :
            /\ i \notin DOMAIN positions
            /\ IndexedUnder(positions_by_asset, i) = {}
            /\ IndexedUnder(positions_by_user, i) = {}
            /\ MemberOf(i) = {}

\* C8: a position stored with status Closed (observed Closed by an earlier
\* refresh) is no longer in the store after the next completed refresh cycle.
C8_ClosedRemovedByNextRefresh ==
    (last.op = "refresh" /\ last.ok) =>
        \A i \in last.closedBefore : i \notin DOMAIN positions
\* C9: a start() call made while the running flag is set fails with "already
\* running", leaves the flag set, spawns no task and changes nothing else.
C9_StartWhileRunning ==
    [][(starts' = starts + 1 /\ running) =>
          /\ lastStart'.result = "AlreadyRunning"
          /\ lastStart'.spawned = 0
          /\ running'
          /\ tasks' = tasks
          /\ stops' = stops
          /\ storeVars' = storeVars
          /\ oracleVars' = oracleVars
          /\ programVars' = programVars
          /\ otherVars' = otherVars]_vars

\* C9 witness: start() was refused while the three tasks of the first start()
\* are alive, one of each kind.
C9_Witness ==
    /\ lastStart.result = "AlreadyRunning"
    /\ running
    /\ \A k \in Kinds : Live(k) = 1

\* C10: once stop() has cleared the flag, and until a later start(), a task
\* completes at most the work in progress at that moment plus one further work
\* iteration, and every task of each kind eventually exits.
C10_TasksExitAfterStop ==
    /\ [](~running =>
            \A k \in Kinds, ts \in TaskStates :
                tasks[k][ts] > 0 => ts.after <= ts.inProgress + 1)
    /\ \A k \in Kinds : (~running) ~> (running \/ Live(k) = 0)

\* C10 witness: stop() was called, the flag is clear and all three tasks have
\* exited (after a start() that spawned them).
C10_Witness ==
    /\ ~running
    /\ stops > 0
    /\ lastStart.result = "Ok"
    /\ \A k \in Kinds : Live(k) = 0

\* C11: one PnL update cycle marks every stored position that is open and
\* whose symbol has a cached price (mark_price = cached price, unrealized_pnl
\* = size*(mark-entry) for Long, size*(entry-mark) for Short) and publishes
\* exactly one PositionUpdate with those values for it; every other position
\* is left as it was and gets no PositionUpdate; no entry is added or removed.
UpdatesFor(id) == {n \in DOMAIN last.updates : last.updates[n].position_account = id}
C12_FailedFetch ==
    [][(last'.op = "poll" /\ last'.result = "Err") =>
          /\ latest_prices' = latest_prices
          /\ last'.tick = <<>> /\ last'.alerts = <<>>
          /\ zsets' = zsets /\ alertCount' = alertCount /\ positions' = positions
          /\ polled' = NextPolled(last'.symbol)
          /\ OracleSymbols \ polled' # {}]_vars

\* C12 witness: a failed fetch for one symbol while a price of the other symbol
\* is cached and a position sits in a liquidation set.
C12_Witness ==
    /\ last.op = "poll" /\ last.result = "Err"
    /\ DOMAIN latest_prices # {}
    /\ last.symbol \notin DOMAIN latest_prices
    /\ polled # {}
    /\ \E k \in Keys : DOMAIN zsets[k] # {}

\* C13: modify_position and close_position return NotFound for an identifier
\* that is not in the store and NotOpen for a stored position that is not
\* open; then no instruction is submitted and the chain, the store, its
\* indices and the liquidation sets are unchanged.
C13_RejectsNotOpen ==
    [][(last'.op \in {"modify", "close"}) =>
          /\ (last'.id \notin DOMAIN positions) => (last'.result = "NotFound")
          /\ (last'.id \in DOMAIN positions /\ ~is_open(positions[last'.id]))
                 => (last'.result = "NotOpen")
          /\ (last'.result \in {"NotFound", "NotOpen"}) =>
                 /\ ~last'.submitted
                 /\ chain' = chain
                 /\ positions' = positions
                 /\ positions_by_asset' = positions_by_asset
                 /\ positions_by_user' = positions_by_user
                 /\ zsets' = zsets]_vars

\* C13 witness: a modify call rejected for a stored position whose status is Closed.
C13_Witness ==
    /\ last.op = "modify" /\ last.result = "NotOpen"
    /\ last.id \in DOMAIN positions
    /\ positions[last.id].status = "Closed"

C15_FailedOpen ==
    [][(last'.op = "open" /\ last'.result \in {"InvalidInput", "TxError"}) =>
          /\ positions' = positions
          /\ positions_by_asset' = positions_by_asset
          /\ positions_by_user' = positions_by_user
          /\ zsets' = zsets
          /\ pending' = pending
          /\ chain' = chain]_vars

\* C15 witness: a call with leverage 0 failed while the store holds a position.
C15_Witness ==
    /\ last.op = "open" /\ last.result = "InvalidInput"
    /\ last.request.leverage = 0
    /\ DOMAIN positions # {}

\* C16: open_position is rejected before any instruction is submitted when the
\* cached oracle price differs from the caller's expected (entry) price by
\* more than the slippage tolerance, in basis points of the expected price.
SlippageBps(expected, actual) ==
    ((IF actual > expected THEN actual - expected ELSE expected - actual) * 10000)
        \div expected
C16_SlippageGuard ==
    (/\ last.op = "open"
     /\ last.oracle # <<>>
     /\ last.request.entry_price > 0
     /\ SlippageBps(last.request.entry_price, last.oracle[1]) > ExampleSlippageBps)
        => ~last.submitted

\* C17: validate_slippage, for an expected price, an actual price and a
\* tolerance of at most 10000 bps, returns
\* SlippageExceeded exactly when floor(|actual - expected| * 10000 / expected)
\* exceeds the tolerance (expected > 0), and Ok otherwise.
C17_SlippageExact ==
    (last.op = "validate_slippage" /\ last.request.expected_price > 0)
        => /\ last.result \in {"Ok", "SlippageExceeded"}
           /\ (last.result = "SlippageExceeded")
                  <=> (SlippageBps(last.request.expected_price,
                                   last.request.actual_price)
                           > last.request.max_slippage_bps)

\* C18: every UserAccount has locked_collateral <= total_collateral.
C18_LockedWithinTotal ==
    \A o \in DOMAIN user_accounts :
        user_accounts[o].locked_collateral <= user_accounts[o].total_collateral

\* C19: every position's leverage lies in 1..1000.
C19_LeverageInRange ==
    \A id \in DOMAIN program_positions :
        /\ program_positions[id].leverage >= 1
        /\ program_positions[id].leverage <= MAX_LEVERAGE

\* C20: every position's liquidation_price is the liquidation price of its
\* current side, entry_price and leverage at the maintenance margin rate of
\* its leverage tier.
C20_LiquidationPriceCurrent ==
    \A id \in DOMAIN program_positions :
        LET p == program_positions[id]
            tier == get_leverage_tier(p.leverage,
                        calculate_position_value_for_tiers(p.size, p.entry_price))
        IN (p.leverage >= 1 /\ tier # <<>>) =>
               <<p.liquidation_price>> =
                   program_calculate_liquidation_price(
                       p.entry_price, p.leverage, p.side,
                       tier[1].maintenance_margin_rate)

\* C21: every position whose status is Opening, Open, Modifying or Closing
\* has size > 0, in the program's accounts after open_position and
\* modify_position instructions and in the backend store after open_position
\* calls and refresh cycles; an open_position call with size 0 registers
\* nothing.
ActiveStatuses == {"Opening", "Open", "Modifying", "Closing"}
C22_UpdateKeepsIndex ==
    [][(last'.op = "update" /\ is_open(positions[last'.id]))
          => LET old == positions[last'.id]
                 new == positions'[last'.id]
             IN (new.side # old.side \/ new.liquidation_price # old.liquidation_price)
                    => /\ {k \in Keys : last'.id \in DOMAIN zsets'[k]}
                              = {<<new.symbol, new.side>>}
                       /\ zsets'[<<new.symbol, new.side>>][last'.id]
                              = new.liquidation_price]_vars


\* C23: an open position that is absent from every sorted set (its insertion
\* failed in add_position while the store was unavailable) is inserted by a
\* later refresh cycle once the store is available again, unless it stops
\* being open; no alert is ever published in these behaviours.
C23_EventuallyIndexed ==
    \A id \in PosIds :
        (id \in DOMAIN positions /\ is_open(positions[id]) /\ MemberOf(id) = {})
            ~> (\/ id \notin DOMAIN positions
                \/ ~is_open(positions[id])
                \/ MemberOf(id) # {})


\* C24: a detection for a symbol that ends with an error of the sorted-set
\* store is skipped as a whole: it publishes no alert and leaves the sorted
\* sets as they were.
C24_FailedDetectionSkipped ==
    [][(last'.op = "detect" /\ last'.failed /\ ~last'.ok)
          => /\ zsets' = zsets
             /\ alertCount' = alertCount]_vars


\* C25: a price, position or alert message that the connection receives has a
\* symbol of the subscription set whenever that set is not empty, and its
\* symbol is never one whose last subscription command was UnsubscribeSymbol
\* (also when that symbol was the only subscribed one).
C25_SubscriptionFilter ==
    (ws_last.kind \in MessageKinds /\ ws_last.delivered)
        => /\ subscribed_symbols # {} => ws_last.symbol \in subscribed_symbols
           /\ ws_commands[ws_last.symbol] # "unsubscribe_symbol"


\* C26: once the monitor on which start() was called has been dropped, the
\* price, refresh and PnL tasks stop: eventually no task of any kind is alive,
\* also when stop() was never called.
C26_DropStopsTasks ==
    dropped ~> (\A k \in Kinds : tasks[k] = NoTasks)


\* C27: a completed refresh does not change the stored size of a position
\* that open_position registered and that was never modified: the size decoded
\* from the on-chain account equals the size open_position stored.
C27_SizeRoundTrip ==
    [][(last'.op = "refresh" /\ last'.ok)
          => \A id \in DOMAIN positions \cap DOMAIN positions' :
                 positions'[id].size = positions[id].size]_vars


C30_OneAlertInFlight ==
    \A km \in DOMAIN alertCount :
        alertCount[km].Liquidated + alertCount[km].Liquidating <= 1


\* C35: at most one price poll task, one refresh task and one PnL task are
\* alive at any time, for every sequence of start() and stop() calls.
C35_OneTaskPerKind ==
    \A k \in Kinds : Live(k) <= 1


\* C40: for every UserAccount, locked_collateral is the sum of the margins of
\* the owner's positions with status Open and position_count is their number,
\* after any sequence of open_position, modify_position and close_position
\* instructions; and a position with status Closed is never changed again.
OpenPositionsOf(owner) ==
    {id \in DOMAIN program_positions :
        id[1] = owner /\ program_positions[id].status = "Open"}
RECURSIVE MarginSum(_)
MarginSum(ids) ==
    IF ids = {} THEN 0
    ELSE LET id == CHOOSE i \in ids : TRUE
         IN program_positions[id].margin + MarginSum(ids \ {id})
C40_CollateralConserved ==
    /\ [](\A o \in DOMAIN user_accounts :
             /\ user_accounts[o].locked_collateral = MarginSum(OpenPositionsOf(o))
             /\ user_accounts[o].position_count = Cardinality(OpenPositionsOf(o)))
    /\ [][\A id \in DOMAIN program_positions :
             program_positions[id].status = "Closed"
                 => program_positions'[id] = program_positions[id]]_vars


\* C40 witness: one position of an owner was closed and another one, still
\* Open, had its size and its margin changed by modify_position.
C40_Witness ==
    \E o \in DOMAIN user_accounts :
        /\ \E id \in DOMAIN program_positions :
              id[1] = o /\ program_positions[id].status = "Closed"
        /\ \E id \in OpenPositionsOf(o) :
              /\ program_positions[id].size = 2000000
              /\ program_positions[id].leverage # 10
        /\ user_accounts[o].locked_collateral > 0
        /\ user_accounts[o].position_count = 1


\* C38: once a Liquidating alert has been published for a member of a
\* liquidation set, no Liquidated alert is published for it on a later price
\* tick unless add_position inserts it again (no position is inserted twice in
\* these behaviours, so the count of a member is that of its only residency).
C38_NoLiquidatedAfterLiquidating ==
    [][\A km \in DOMAIN alertCount :
          (alertCount[km].Liquidating >= 1 /\ km \in DOMAIN alertCount')
              => alertCount'[km].Liquidated = alertCount[km].Liquidated]_vars


\* C39: a refresh update of a position already in the store replaces the whole
\* stored record with the decoded on-chain record (mark_price is the entry
\* price again, unrealized_pnl the on-chain value, position_index 0), and a
\* refresh that only updates leaves the by-symbol index, the by-owner index
\* and the sorted sets as they were.
C39_Updated == (last'.scanned \cap DOMAIN positions) \cap DOMAIN chain
C39_RefreshReplacesRecord ==
    [][(last'.op = "refresh" /\ last'.ok) =>
         /\ \A id \in C39_Updated :
              /\ id \in DOMAIN positions'
              /\ positions'[id] = to_domain_position(chain[id], id)
              /\ positions'[id].mark_price = positions'[id].entry_price
              /\ positions'[id].unrealized_pnl = chain[id].unrealized_pnl
              /\ positions'[id].position_index = 0
         /\ (DOMAIN positions' = C39_Updated /\ DOMAIN positions = C39_Updated) =>
              /\ positions_by_asset' = positions_by_asset
              /\ positions_by_user' = positions_by_user
              /\ zsets' = zsets]_vars

\* a refresh has reset a position whose symbol has a cached price different
\* from its entry price
C39_Witness ==
    /\ last.op = "refresh" /\ last.ok
    /\ \E id \in last.openBefore \cap last.scanned :
          /\ id \in DOMAIN positions
          /\ positions[id].mark_price = positions[id].entry_price
          /\ positions[id].symbol \in DOMAIN latest_prices
          /\ latest_prices[positions[id].symbol] # positions[id].entry_price


\* C31: every PositionUpdate the PnL task publishes carries a mark price whose
\* PriceTick has already been sent on the price channel.
C31_TickBeforePositionUpdate ==
    last.op = "pnl_one" =>
        \A i \in DOMAIN last.updates :
            [symbol |-> last.updates[i].symbol, price |-> last.updates[i].mark_price]
                \in price_ticks


\* the three read operations, as they answer when issued in the current state
get_position(id) == IF id \in DOMAIN positions THEN <<positions[id]>> ELSE <<>>
get_positions_by_asset(symbol) == Collect(IndexEntry(positions_by_asset, symbol))
ReadersAdmitted ==
    \A g \in {"positions", "positions_by_asset", "positions_by_user"} :
        Compatible(guards[g].holders, "r") /\ guards[g].waiting = <<>>

\* C33: whenever get_position(id) returns a position, get_positions_by_asset
\* of its symbol and get_user_positions of its owner, issued in the same
\* state, return it too.
C33_NoPartialIndex ==
    ReadersAdmitted =>
        \A id \in PosIds :
            get_position(id) # <<>> =>
                LET p == get_position(id)[1]
                IN /\ p \in Range(get_positions_by_asset(p.symbol))
                   /\ p \in Range(get_user_positions(p.owner))

\* C36: when no add_position or remove_position call is in progress, every
\* identifier in the by-symbol index, in the by-owner index or in a sorted set
\* is a key of the position map.
IndexedIds ==
    UNION {Range(positions_by_asset[k]) : k \in DOMAIN positions_by_asset}
    \cup UNION {Range(positions_by_user[k]) : k \in DOMAIN positions_by_user}
    \cup UNION {DOMAIN zsets[k] : k \in DOMAIN zsets}
C36_NoDanglingEntry ==
    (\A c \in IndexCallers : calls[c].todo = <<>>) => IndexedIds \subseteq DOMAIN positions

\* C37: the refresh task removes a position only if the position was in the
\* store when the cycle's on-chain scan was taken.
C37_RemovesOnlyScannedAbsent ==
    [][(last'.op = "remove" /\ last'.result = "refresh" /\ last'.ok)
          => last'.id \in calls["refresh"].loc.stored]_vars


\* C32: no read operation observes the positions while a PnL cycle has
\* rewritten some of the open positions and has others still to rewrite.
C32_PnlCycleAtomic ==
    observed.op # "none" => (observed.done = {} \/ observed.left = {})

\* a read operation is queued for the position map while the PnL cycle, which
\* holds it, has rewritten one position and not yet the other
C32_Witness ==
    /\ "reader" \in Range(guards["positions"].waiting)
    /\ calls["pnl"].loc.done # {}
    /\ calls["pnl"].loc.left # {}

\* C34: whenever some call is in flight, at least one in-flight call can take
\* its next step.
Active == {c \in Callers : calls[c].todo # <<>>}
Blocked(c) ==
    LET step == Head(calls[c].todo)
    IN IF step.acq = <<>> THEN FALSE ELSE ~Grantable(c, step.acq[1], step.acq[2])
C34_DeadlockFree ==
    Active # {} => \E c \in Active : ~Blocked(c)

\* a reader is queued behind a writer that waits for the guard another caller holds
C34_Witness ==
    \E g \in GuardNames :
        /\ Len(guards[g].waiting) >= 2
        /\ guards[g].holders # {}

====
